---- MODULE Spec2Model ----
(***************************************************************************)
(* Souls Arena: a two-peer, host-authoritative turn-based battle game.     *)
(* Every peer runs the same App component (src/App.tsx); the model keeps   *)
(* one copy of the component's state per peer, the MQTT client objects the *)
(* peers create, the timers they schedule and the messages in flight.      *)
(*                                                                         *)
(* Conventions                                                             *)
(*  - Display names carry no control flow and are left out; a player is    *)
(*    named by its id, and so are the attacker and target of a log entry.  *)
(*  - An inventory holds catalog items; the model stores each by its id    *)
(*    and reads type, cost, stats and scaling from SHOP_ITEMS.             *)
(*  - Scaling coefficients are kept in tenths (0.8 -> 8) and damage is     *)
(*    computed in twentieths, so the arithmetic stays in the integers.     *)
(*  - Time is abstracted: a pending timer may fire at any moment.          *)
(***************************************************************************)
EXTENDS Integers, Sequences, FiniteSets, TLC

\* ------------------------------------------------------------------ constants
INITIAL_SOULS == 3000
ROUND_WIN_BONUS == 2000
ROUND_LOSS_BONUS == 1000
MAX_ROUNDS == 3

INVENTORY_LIMITS ==
  [WEAPON |-> 2, ARMOR |-> 1, ACCESSORY |-> 4, SPELL |-> 2]

BASE_STATS ==
  [hp |-> 100, str |-> 10, dex |-> 10, int |-> 10, def |-> 0, poise |-> 0]

SHOP_ITEMS ==
  <<
    [id |-> "w_longsword", type |-> "WEAPON", cost |-> 500,
     stats |-> [hp |-> 0, str |-> 0, dex |-> 0, int |-> 0, def |-> 0, poise |-> 0],
     scaling |-> [str |-> 8, dex |-> 8, int |-> 0]],
    [id |-> "w_claymore", type |-> "WEAPON", cost |-> 1000,
     stats |-> [hp |-> 0, str |-> 0, dex |-> 0, int |-> 0, def |-> 0, poise |-> 0],
     scaling |-> [str |-> 12, dex |-> 6, int |-> 0]],
    [id |-> "w_zweihander", type |-> "WEAPON", cost |-> 1500,
     stats |-> [hp |-> 0, str |-> 0, dex |-> 0, int |-> 0, def |-> 0, poise |-> 20],
     scaling |-> [str |-> 20, dex |-> 0, int |-> 0]],
    [id |-> "w_uchigatana", type |-> "WEAPON", cost |-> 900,
     stats |-> [hp |-> 0, str |-> 0, dex |-> 5, int |-> 0, def |-> 0, poise |-> 0],
     scaling |-> [str |-> 0, dex |-> 16, int |-> 0]],
    [id |-> "w_estoc", type |-> "WEAPON", cost |-> 800,
     stats |-> [hp |-> 0, str |-> 0, dex |-> 0, int |-> 0, def |-> 0, poise |-> 0],
     scaling |-> [str |-> 4, dex |-> 12, int |-> 0]],
    [id |-> "w_staff", type |-> "WEAPON", cost |-> 600,
     stats |-> [hp |-> 0, str |-> 0, dex |-> 0, int |-> 5, def |-> 0, poise |-> 0],
     scaling |-> [str |-> 0, dex |-> 0, int |-> 14]],
    [id |-> "w_moonlight", type |-> "WEAPON", cost |-> 2500,
     stats |-> [hp |-> 0, str |-> 0, dex |-> 0, int |-> 0, def |-> 5, poise |-> 0],
     scaling |-> [str |-> 5, dex |-> 0, int |-> 15]],
    [id |-> "a_knight", type |-> "ARMOR", cost |-> 600,
     stats |-> [hp |-> 30, str |-> 0, dex |-> 0, int |-> 0, def |-> 10, poise |-> 0],
     scaling |-> [str |-> 0, dex |-> 0, int |-> 0]],
    [id |-> "a_elite", type |-> "ARMOR", cost |-> 1000,
     stats |-> [hp |-> 50, str |-> 0, dex |-> 0, int |-> 0, def |-> 15, poise |-> 5],
     scaling |-> [str |-> 0, dex |-> 0, int |-> 0]],
    [id |-> "a_blackiron", type |-> "ARMOR", cost |-> 1400,
     stats |-> [hp |-> 80, str |-> 0, dex |-> -5, int |-> 0, def |-> 25, poise |-> 15],
     scaling |-> [str |-> 0, dex |-> 0, int |-> 0]],
    [id |-> "a_havel", type |-> "ARMOR", cost |-> 2000,
     stats |-> [hp |-> 100, str |-> 0, dex |-> -10, int |-> 0, def |-> 35, poise |-> 40],
     scaling |-> [str |-> 0, dex |-> 0, int |-> 0]],
    [id |-> "a_robes", type |-> "ARMOR", cost |-> 400,
     stats |-> [hp |-> 0, str |-> 0, dex |-> 2, int |-> 10, def |-> 5, poise |-> 0],
     scaling |-> [str |-> 0, dex |-> 0, int |-> 0]],
    [id |-> "r_life", type |-> "ACCESSORY", cost |-> 300,
     stats |-> [hp |-> 50, str |-> 0, dex |-> 0, int |-> 0, def |-> 0, poise |-> 0],
     scaling |-> [str |-> 0, dex |-> 0, int |-> 0]],
    [id |-> "r_chloranthy", type |-> "ACCESSORY", cost |-> 500,
     stats |-> [hp |-> 0, str |-> 0, dex |-> 8, int |-> 0, def |-> 0, poise |-> 0],
     scaling |-> [str |-> 0, dex |-> 0, int |-> 0]],
    [id |-> "r_havel", type |-> "ACCESSORY", cost |-> 800,
     stats |-> [hp |-> 0, str |-> 15, dex |-> 0, int |-> 0, def |-> 0, poise |-> 0],
     scaling |-> [str |-> 0, dex |-> 0, int |-> 0]],
    [id |-> "r_fap", type |-> "ACCESSORY", cost |-> 1200,
     stats |-> [hp |-> 80, str |-> 5, dex |-> 5, int |-> 0, def |-> 0, poise |-> 0],
     scaling |-> [str |-> 0, dex |-> 0, int |-> 0]],
    [id |-> "r_steel", type |-> "ACCESSORY", cost |-> 600,
     stats |-> [hp |-> 0, str |-> 0, dex |-> 0, int |-> 0, def |-> 15, poise |-> 0],
     scaling |-> [str |-> 0, dex |-> 0, int |-> 0]],
    [id |-> "r_rtsr", type |-> "ACCESSORY", cost |-> 1500,
     stats |-> [hp |-> 0, str |-> 2, dex |-> 2, int |-> 0, def |-> 0, poise |-> 0],
     scaling |-> [str |-> 0, dex |-> 0, int |-> 0]],
    [id |-> "r_wolf", type |-> "ACCESSORY", cost |-> 700,
     stats |-> [hp |-> 0, str |-> 0, dex |-> 0, int |-> 0, def |-> 0, poise |-> 30],
     scaling |-> [str |-> 0, dex |-> 0, int |-> 0]],
    [id |-> "s_arrow", type |-> "SPELL", cost |-> 400,
     stats |-> [hp |-> 0, str |-> 0, dex |-> 0, int |-> 8, def |-> 0, poise |-> 0],
     scaling |-> [str |-> 0, dex |-> 0, int |-> 0]],
    [id |-> "s_harrow", type |-> "SPELL", cost |-> 800,
     stats |-> [hp |-> 0, str |-> 0, dex |-> 0, int |-> 15, def |-> 0, poise |-> 0],
     scaling |-> [str |-> 0, dex |-> 0, int |-> 0]],
    [id |-> "s_soulmass", type |-> "SPELL", cost |-> 1200,
     stats |-> [hp |-> 0, str |-> 0, dex |-> 0, int |-> 25, def |-> 0, poise |-> 0],
     scaling |-> [str |-> 0, dex |-> 0, int |-> 0]],
    [id |-> "s_spear", type |-> "SPELL", cost |-> 1000,
     stats |-> [hp |-> 0, str |-> 5, dex |-> 0, int |-> 10, def |-> 0, poise |-> 0],
     scaling |-> [str |-> 0, dex |-> 0, int |-> 0]]
  >>

\* Ordered list of interchangeable broker endpoints; only its length matters.
BROKERS == <<"Eclipse Cloud (443)", "HiveMQ Public (8000)", "EMQX Global (8084)">>

NULL == "null"
AI_ID == "ai-gemini"

\* ------------------------------------------------------------------- bounds
\* The peers (browser tabs) running the component.  Their player ids stand
\* for the random ids handleLogin draws.
Peers == {"p1", "p2", "p3"}
\* The one room code users create and type in.
ROOM == "r1"
\* MQTT client objects created over a run (connection attempts of all peers).
MaxClients == 4
\* Messages in flight; a publish into a full network is lost.
MaxInFlight == 2
\* Items bought over a match (sum of the inventories) before purchases stop.
MaxItems == 2
\* Critical hits explored per battle.
MaxCrits == 1
\* Items bought in the shop specification before the shop stops selling.
MaxShopItems == 4

\* --------------------------------------------------------------- game data
Min(S) == CHOOSE x \in S : \A y \in S : x <= y
Max(a, b) == IF a >= b THEN a ELSE b

ItemIndexes(itemId) == {i \in 1..Len(SHOP_ITEMS) : SHOP_ITEMS[i].id = itemId}
\* SHOP_ITEMS.find(i => i.id === itemId): hasItem is "found", findItem the item
hasItem(itemId) == ItemIndexes(itemId) # {}
findItem(itemId) == SHOP_ITEMS[Min(ItemIndexes(itemId))]

PlayerIndexes(players, id) == {i \in 1..Len(players) : players[i].id = id}
\* players.find(p => p.id === id): hasPlayer is "found", findPlayer the player
hasPlayer(players, id) == PlayerIndexes(players, id) # {}
findPlayer(players, id) == players[Min(PlayerIndexes(players, id))]

PlayerIds(players) == {players[i].id : i \in 1..Len(players)}

createPlayer(id, isAi) ==
  [id |-> id, isAi |-> isAi, souls |-> INITIAL_SOULS, inventory |-> <<>>,
   currentStats |-> BASE_STATS, wins |-> 0, isReady |-> FALSE]

RECURSIVE SumStat(_, _)
SumStat(inventory, f) ==
  IF inventory = <<>> THEN 0
  ELSE findItem(Head(inventory)).stats[f] + SumStat(Tail(inventory), f)

\* Fault variant of calculateStats: the poise line of the loop is missing.
calculateStatsNoPoise(player) ==
  [f \in DOMAIN BASE_STATS |->
     IF f = "poise" THEN BASE_STATS[f] ELSE BASE_STATS[f] + SumStat(player.inventory, f)]

calculateStats(player) ==
  [f \in DOMAIN BASE_STATS |-> BASE_STATS[f] + SumStat(player.inventory, f)]

\* player.inventory.filter(i => i.type === type).length
typeCount(inventory, type) ==
  Cardinality({i \in 1..Len(inventory) : findItem(inventory[i]).type = type})

\* players.map(p => f(p)) for the player(s) with the given id
MapPlayer(players, id, F(_)) ==
  [i \in 1..Len(players) |-> IF players[i].id = id THEN F(players[i]) ELSE players[i]]

\* Fault variant of processBuyItem: the buyer's souls are not compared with
\* the cost.
processBuyItemOnCredit(state, playerId, itemId) ==
  LET player == findPlayer(state.players, playerId)
      item == findItem(itemId)
  IN IF ~hasPlayer(state.players, playerId) \/ ~hasItem(itemId) THEN state
     ELSE IF typeCount(player.inventory, item.type) >= INVENTORY_LIMITS[item.type] THEN state
     ELSE LET newInventory == Append(player.inventory, itemId)
              newStats == calculateStats([player EXCEPT !.inventory = newInventory])
              Bought(p) == [p EXCEPT !.souls = p.souls - item.cost,
                                     !.inventory = newInventory,
                                     !.currentStats = newStats]
          IN [state EXCEPT !.players = MapPlayer(state.players, playerId, Bought)]

\* Fault variants of processBuyItem, used to validate the purchase properties:
\* one forgets to charge the buyer, one forgets the category limit.
processBuyItemFree(state, playerId, itemId) ==
  LET player == findPlayer(state.players, playerId)
      item == findItem(itemId)
  IN IF ~hasPlayer(state.players, playerId) \/ ~hasItem(itemId) THEN state
     ELSE IF player.souls < item.cost THEN state
     ELSE IF typeCount(player.inventory, item.type) >= INVENTORY_LIMITS[item.type] THEN state
     ELSE LET newInventory == Append(player.inventory, itemId)
              newStats == calculateStats([player EXCEPT !.inventory = newInventory])
              Bought(p) == [p EXCEPT !.inventory = newInventory,
                                     !.currentStats = newStats]
          IN [state EXCEPT !.players = MapPlayer(state.players, playerId, Bought)]

processBuyItemNoLimit(state, playerId, itemId) ==
  LET player == findPlayer(state.players, playerId)
      item == findItem(itemId)
  IN IF ~hasPlayer(state.players, playerId) \/ ~hasItem(itemId) THEN state
     ELSE IF player.souls < item.cost THEN state
     ELSE LET newInventory == Append(player.inventory, itemId)
              newStats == calculateStats([player EXCEPT !.inventory = newInventory])
              Bought(p) == [p EXCEPT !.souls = p.souls - item.cost,
                                     !.inventory = newInventory,
                                     !.currentStats = newStats]
          IN [state EXCEPT !.players = MapPlayer(state.players, playerId, Bought)]

processBuyItem(state, playerId, itemId) ==
  LET player == findPlayer(state.players, playerId)
      item == findItem(itemId)
  IN IF ~hasPlayer(state.players, playerId) \/ ~hasItem(itemId) THEN state
     ELSE IF player.souls < item.cost THEN state
     ELSE IF typeCount(player.inventory, item.type) >= INVENTORY_LIMITS[item.type] THEN state
     ELSE LET newInventory == Append(player.inventory, itemId)
              newStats == calculateStats([player EXCEPT !.inventory = newInventory])
              Bought(p) == [p EXCEPT !.souls = p.souls - item.cost,
                                     !.inventory = newInventory,
                                     !.currentStats = newStats]
          IN [state EXCEPT !.players = MapPlayer(state.players, playerId, Bought)]

InitialGameState ==
  [phase |-> "LOGIN", round |-> 1, maxRounds |-> MAX_ROUNDS, roomCode |-> NULL,
   players |-> <<>>, logs |-> <<>>, currentTurnIndex |-> 0,
   roundWinnerId |-> NULL, gameWinnerId |-> NULL]

\* ------------------------------------------------------------ battle engine
IsWeaponOrSpell(itemId) == findItem(itemId).type \in {"WEAPON", "SPELL"}
\* attacker.inventory.filter(i => i.type === 'WEAPON' || i.type === 'SPELL')
weaponsOf(player) == SelectSeq(player.inventory, IsWeaponOrSpell)

\* The two random draws of a turn: the index of the weapon used (0 when the
\* attacker holds none) and the draw compared with dex * 0.01, in hundredths.
\* 0 stands for a draw below every positive chance, 99 for one above every
\* chance below 1.
WeaponDraws(player) ==
  IF weaponsOf(player) = <<>> THEN {0} ELSE 1..Len(weaponsOf(player))
CritDraws == {0, 99}

baseDmg(weaponIdx) == IF weaponIdx = 0 THEN 10 ELSE 20

\* scalingDmg in tenths
scalingDmg(attacker, weaponIdx) ==
  IF weaponIdx = 0 THEN attacker.currentStats.str * 5
  ELSE LET s == findItem(weaponsOf(attacker)[weaponIdx]).scaling
       IN attacker.currentStats.str * s.str
          + attacker.currentStats.dex * s.dex
          + attacker.currentStats.int * s.int

hasRTSR(attacker) == \E i \in 1..Len(attacker.inventory) : attacker.inventory[i] = "r_rtsr"
maxHp(attacker) == 100 + SumStat(attacker.inventory, "hp")
\* (hp / maxHp) < 0.2
lowHp(attacker) == attacker.currentStats.hp * 5 < maxHp(attacker)
\* dmgMultiplier in halves: 1 -> 2, 1.5 -> 3
dmgMultiplier(attacker) == IF hasRTSR(attacker) /\ lowHp(attacker) THEN 3 ELSE 2

\* rawDmg in twentieths
rawDmg(attacker, weaponIdx) ==
  (baseDmg(weaponIdx) * 10 + scalingDmg(attacker, weaponIdx)) * dmgMultiplier(attacker)

\* Fault variant of finalDmg: the floor of 1 is left out.
finalDmgNoFloor(attacker, defender, weaponIdx) ==
  (rawDmg(attacker, weaponIdx) - 20 * defender.currentStats.def) \div 20

\* Math.max(1, Math.floor(rawDmg - mitigation))
finalDmg(attacker, defender, weaponIdx) ==
  Max(1, (rawDmg(attacker, weaponIdx) - 20 * defender.currentStats.def) \div 20)

\* Math.random() < attacker.currentStats.dex * 0.01
isCrit(attacker, critDraw) == critDraw < attacker.currentStats.dex

\* isCrit ? Math.floor(finalDmg * 1.5) : finalDmg
actualDmg(attacker, defender, weaponIdx, critDraw) ==
  IF isCrit(attacker, critDraw)
  THEN (finalDmg(attacker, defender, weaponIdx) * 3) \div 2
  ELSE finalDmg(attacker, defender, weaponIdx)

\* Fault variant of turnState: the turn stays with the attacker.
turnStateNoFlip(prev, weaponIdx, critDraw) ==
  LET attackerIdx == prev.currentTurnIndex
      defenderIdx == IF attackerIdx = 0 THEN 1 ELSE 0
      attacker == prev.players[attackerIdx + 1]
      defender == prev.players[defenderIdx + 1]
      dmg == actualDmg(attacker, defender, weaponIdx, critDraw)
      newDefenderHp == defender.currentStats.hp - dmg
      newLog == [turn |-> Len(prev.logs) + 1, attacker |-> attacker.id,
                 target |-> defender.id, damage |-> dmg,
                 isCrit |-> isCrit(attacker, critDraw)]
      deathLog == [turn |-> Len(prev.logs) + 2, attacker |-> "SYSTEM",
                   target |-> "", damage |-> 0, isCrit |-> FALSE]
      updatedPlayers ==
        [prev.players EXCEPT ![defenderIdx + 1].currentStats.hp = newDefenderHp]
  IN IF newDefenderHp <= 0
     THEN [prev EXCEPT !.players = updatedPlayers,
                       !.logs = prev.logs \o <<newLog, deathLog>>,
                       !.roundWinnerId = attacker.id,
                       !.phase = "ROUND_RESULT"]
     ELSE [prev EXCEPT !.players = updatedPlayers,
                       !.logs = Append(prev.logs, newLog)]

\* Fault variant of turnState: the turn passes to the defender's position
\* counted from 1.
turnStateOneBased(prev, weaponIdx, critDraw) ==
  LET attackerIdx == prev.currentTurnIndex
      defenderIdx == IF attackerIdx = 0 THEN 1 ELSE 0
      attacker == prev.players[attackerIdx + 1]
      defender == prev.players[defenderIdx + 1]
      dmg == actualDmg(attacker, defender, weaponIdx, critDraw)
      newDefenderHp == defender.currentStats.hp - dmg
      newLog == [turn |-> Len(prev.logs) + 1, attacker |-> attacker.id,
                 target |-> defender.id, damage |-> dmg,
                 isCrit |-> isCrit(attacker, critDraw)]
      deathLog == [turn |-> Len(prev.logs) + 2, attacker |-> "SYSTEM",
                   target |-> "", damage |-> 0, isCrit |-> FALSE]
      updatedPlayers ==
        [prev.players EXCEPT ![defenderIdx + 1].currentStats.hp = newDefenderHp]
  IN IF newDefenderHp <= 0
     THEN [prev EXCEPT !.players = updatedPlayers,
                       !.logs = prev.logs \o <<newLog, deathLog>>,
                       !.roundWinnerId = attacker.id,
                       !.phase = "ROUND_RESULT"]
     ELSE [prev EXCEPT !.players = updatedPlayers,
                       !.logs = Append(prev.logs, newLog),
                       !.currentTurnIndex = defenderIdx + 1]

\* Fault variant of turnState: the log keeps only the entry of the last attack.
turnStateLastEntry(prev, weaponIdx, critDraw) ==
  LET attackerIdx == prev.currentTurnIndex
      defenderIdx == IF attackerIdx = 0 THEN 1 ELSE 0
      attacker == prev.players[attackerIdx + 1]
      defender == prev.players[defenderIdx + 1]
      dmg == actualDmg(attacker, defender, weaponIdx, critDraw)
      newDefenderHp == defender.currentStats.hp - dmg
      newLog == [turn |-> Len(prev.logs) + 1, attacker |-> attacker.id,
                 target |-> defender.id, damage |-> dmg,
                 isCrit |-> isCrit(attacker, critDraw)]
      deathLog == [turn |-> Len(prev.logs) + 2, attacker |-> "SYSTEM",
                   target |-> "", damage |-> 0, isCrit |-> FALSE]
      updatedPlayers ==
        [prev.players EXCEPT ![defenderIdx + 1].currentStats.hp = newDefenderHp]
  IN IF newDefenderHp <= 0
     THEN [prev EXCEPT !.players = updatedPlayers,
                       !.logs = prev.logs \o <<newLog, deathLog>>,
                       !.roundWinnerId = attacker.id,
                       !.phase = "ROUND_RESULT"]
     ELSE [prev EXCEPT !.players = updatedPlayers,
                       !.logs = <<newLog>>,
                       !.currentTurnIndex = defenderIdx]

\* The reducer of executeTurn: prev -> nextState
turnState(prev, weaponIdx, critDraw) ==
  LET attackerIdx == prev.currentTurnIndex
      defenderIdx == IF attackerIdx = 0 THEN 1 ELSE 0
      attacker == prev.players[attackerIdx + 1]
      defender == prev.players[defenderIdx + 1]
      dmg == actualDmg(attacker, defender, weaponIdx, critDraw)
      newDefenderHp == defender.currentStats.hp - dmg
      newLog == [turn |-> Len(prev.logs) + 1, attacker |-> attacker.id,
                 target |-> defender.id, damage |-> dmg,
                 isCrit |-> isCrit(attacker, critDraw)]
      deathLog == [turn |-> Len(prev.logs) + 2, attacker |-> "SYSTEM",
                   target |-> "", damage |-> 0, isCrit |-> FALSE]
      updatedPlayers ==
        [prev.players EXCEPT ![defenderIdx + 1].currentStats.hp = newDefenderHp]
  IN IF newDefenderHp <= 0
     THEN [prev EXCEPT !.players = updatedPlayers,
                       !.logs = prev.logs \o <<newLog, deathLog>>,
                       !.roundWinnerId = attacker.id,
                       !.phase = "ROUND_RESULT"]
     ELSE [prev EXCEPT !.players = updatedPlayers,
                       !.logs = Append(prev.logs, newLog),
                       !.currentTurnIndex = defenderIdx]

\* ------------------------------------------------------------ round scoring
\* Fault variant of Scored: the two bonuses swapped.
ScoredSwapped(p, winnerId) ==
  [p EXCEPT !.souls = p.souls + (IF p.id = winnerId THEN ROUND_LOSS_BONUS ELSE ROUND_WIN_BONUS),
            !.wins = IF p.id = winnerId THEN p.wins + 1 ELSE p.wins,
            !.currentStats = calculateStats(p),
            !.isReady = FALSE]

\* Fault variant of Scored: the stats are not recomputed (no healing).
ScoredNoHeal(p, winnerId) ==
  [p EXCEPT !.souls = p.souls + (IF p.id = winnerId THEN ROUND_WIN_BONUS ELSE ROUND_LOSS_BONUS),
            !.wins = IF p.id = winnerId THEN p.wins + 1 ELSE p.wins,
            !.isReady = FALSE]

Scored(p, winnerId) ==
  [p EXCEPT !.souls = p.souls + (IF p.id = winnerId THEN ROUND_WIN_BONUS ELSE ROUND_LOSS_BONUS),
            !.wins = IF p.id = winnerId THEN p.wins + 1 ELSE p.wins,
            !.currentStats = calculateStats(p),
            !.isReady = FALSE]

\* Fault variant of nextRoundState: the match goes on until a third win.
nextRoundStateThreeWins(prev) ==
  LET winnerId == prev.roundWinnerId
      updatedPlayers == [i \in 1..Len(prev.players) |-> Scored(prev.players[i], winnerId)]
      winners == {i \in 1..Len(updatedPlayers) : updatedPlayers[i].wins >= 3}
      p1Wins == updatedPlayers[1].wins
      p2Wins == updatedPlayers[2].wins
      finalWinnerId ==
        IF winners # {} THEN updatedPlayers[Min(winners)].id
        ELSE IF p1Wins >= p2Wins THEN updatedPlayers[1].id ELSE updatedPlayers[2].id
  IN IF winners # {} \/ prev.round >= MAX_ROUNDS
     THEN [prev EXCEPT !.players = updatedPlayers,
                       !.phase = "GAME_OVER",
                       !.gameWinnerId = finalWinnerId]
     ELSE [prev EXCEPT !.players = updatedPlayers,
                       !.round = prev.round + 1,
                       !.roundWinnerId = NULL,
                       !.logs = <<>>,
                       !.phase = "SHOP"]

\* Fault variant of nextRoundState: the match ends without naming its winner.
nextRoundStateNoWinner(prev) ==
  LET winnerId == prev.roundWinnerId
      updatedPlayers == [i \in 1..Len(prev.players) |-> Scored(prev.players[i], winnerId)]
      winners == {i \in 1..Len(updatedPlayers) : updatedPlayers[i].wins >= 2}
      p1Wins == updatedPlayers[1].wins
      p2Wins == updatedPlayers[2].wins
      finalWinnerId ==
        IF winners # {} THEN updatedPlayers[Min(winners)].id
        ELSE IF p1Wins >= p2Wins THEN updatedPlayers[1].id ELSE updatedPlayers[2].id
  IN IF winners # {} \/ prev.round >= MAX_ROUNDS
     THEN [prev EXCEPT !.players = updatedPlayers,
                       !.phase = "GAME_OVER"]
     ELSE [prev EXCEPT !.players = updatedPlayers,
                       !.round = prev.round + 1,
                       !.roundWinnerId = NULL,
                       !.logs = <<>>,
                       !.phase = "SHOP"]

\* The reducer of handleNextRound: prev -> nextState
\* Fault variant of nextRoundState: the next round starts with the turn index
\* set back to the first slot.
nextRoundStateResetTurn(prev) ==
  LET winnerId == prev.roundWinnerId
      updatedPlayers == [i \in 1..Len(prev.players) |-> Scored(prev.players[i], winnerId)]
      winners == {i \in 1..Len(updatedPlayers) : updatedPlayers[i].wins >= 2}
      p1Wins == updatedPlayers[1].wins
      p2Wins == updatedPlayers[2].wins
      finalWinnerId ==
        IF winners # {} THEN updatedPlayers[Min(winners)].id
        ELSE IF p1Wins >= p2Wins THEN updatedPlayers[1].id ELSE updatedPlayers[2].id
  IN IF winners # {} \/ prev.round >= MAX_ROUNDS
     THEN [prev EXCEPT !.players = updatedPlayers,
                       !.phase = "GAME_OVER",
                       !.gameWinnerId = finalWinnerId]
     ELSE [prev EXCEPT !.players = updatedPlayers,
                       !.round = prev.round + 1,
                       !.roundWinnerId = NULL,
                       !.logs = <<>>,
                       !.currentTurnIndex = 0,
                       !.phase = "SHOP"]

\* Fault variant of nextRoundState: the match ends after the last round only,
\* not when a player reaches two wins.
nextRoundStateEveryRound(prev) ==
  LET winnerId == prev.roundWinnerId
      updatedPlayers == [i \in 1..Len(prev.players) |-> Scored(prev.players[i], winnerId)]
      p1Wins == updatedPlayers[1].wins
      p2Wins == updatedPlayers[2].wins
  IN IF prev.round >= MAX_ROUNDS
     THEN [prev EXCEPT !.players = updatedPlayers,
                       !.phase = "GAME_OVER",
                       !.gameWinnerId = IF p1Wins >= p2Wins THEN updatedPlayers[1].id
                                        ELSE updatedPlayers[2].id]
     ELSE [prev EXCEPT !.players = updatedPlayers,
                       !.round = prev.round + 1,
                       !.roundWinnerId = NULL,
                       !.logs = <<>>,
                       !.phase = "SHOP"]

\* Fault variant of nextRoundState: the match always goes to the first slot.
nextRoundStateFirstSlot(prev) ==
  LET winnerId == prev.roundWinnerId
      updatedPlayers == [i \in 1..Len(prev.players) |-> Scored(prev.players[i], winnerId)]
      winners == {i \in 1..Len(updatedPlayers) : updatedPlayers[i].wins >= 2}
  IN IF winners # {} \/ prev.round >= MAX_ROUNDS
     THEN [prev EXCEPT !.players = updatedPlayers,
                       !.phase = "GAME_OVER",
                       !.gameWinnerId = updatedPlayers[1].id]
     ELSE [prev EXCEPT !.players = updatedPlayers,
                       !.round = prev.round + 1,
                       !.roundWinnerId = NULL,
                       !.logs = <<>>,
                       !.phase = "SHOP"]

nextRoundState(prev) ==
  LET winnerId == prev.roundWinnerId
      updatedPlayers == [i \in 1..Len(prev.players) |-> Scored(prev.players[i], winnerId)]
      winners == {i \in 1..Len(updatedPlayers) : updatedPlayers[i].wins >= 2}
      p1Wins == updatedPlayers[1].wins
      p2Wins == updatedPlayers[2].wins
      finalWinnerId ==
        IF winners # {} THEN updatedPlayers[Min(winners)].id
        ELSE IF p1Wins >= p2Wins THEN updatedPlayers[1].id ELSE updatedPlayers[2].id
  IN IF winners # {} \/ prev.round >= MAX_ROUNDS
     THEN [prev EXCEPT !.players = updatedPlayers,
                       !.phase = "GAME_OVER",
                       !.gameWinnerId = finalWinnerId]
     ELSE [prev EXCEPT !.players = updatedPlayers,
                       !.round = prev.round + 1,
                       !.roundWinnerId = NULL,
                       !.logs = <<>>,
                       !.phase = "SHOP"]

\* ------------------------------------------------------------- battle start
\* The forEach loop of startBattlePhase over the suggested ids: the running
\* [souls, inventory] of the AI player.
\* Fault variant of aiBuy: the category limit is not looked at.
RECURSIVE aiBuyNoLimit(_, _)
aiBuyNoLimit(acc, itemsToBuyIds) ==
  IF itemsToBuyIds = <<>> THEN acc
  ELSE LET id == Head(itemsToBuyIds)
           item == findItem(id)
           next ==
             IF ~hasItem(id) THEN acc
             ELSE IF item.cost <= acc.souls
                  THEN [souls |-> acc.souls - item.cost,
                        inventory |-> Append(acc.inventory, id)]
                  ELSE acc
       IN aiBuyNoLimit(next, Tail(itemsToBuyIds))

\* Fault variant of aiBuy: an item that costs exactly the souls left is refused.
RECURSIVE aiBuyStrictCost(_, _)
aiBuyStrictCost(acc, itemsToBuyIds) ==
  IF itemsToBuyIds = <<>> THEN acc
  ELSE LET id == Head(itemsToBuyIds)
           item == findItem(id)
           next ==
             IF ~hasItem(id) THEN acc
             ELSE IF item.cost < acc.souls
                     /\ typeCount(acc.inventory, item.type) < INVENTORY_LIMITS[item.type]
                  THEN [souls |-> acc.souls - item.cost,
                        inventory |-> Append(acc.inventory, id)]
                  ELSE acc
       IN aiBuyStrictCost(next, Tail(itemsToBuyIds))

RECURSIVE aiBuy(_, _)
aiBuy(acc, itemsToBuyIds) ==
  IF itemsToBuyIds = <<>> THEN acc
  ELSE LET id == Head(itemsToBuyIds)
           item == findItem(id)
           next ==
             IF ~hasItem(id) THEN acc
             ELSE IF item.cost <= acc.souls
                     /\ typeCount(acc.inventory, item.type) < INVENTORY_LIMITS[item.type]
                  THEN [souls |-> acc.souls - item.cost,
                        inventory |-> Append(acc.inventory, id)]
                  ELSE acc
       IN aiBuy(next, Tail(itemsToBuyIds))

AiIndexes(players) == {i \in 1..Len(players) : players[i].isAi}
HumanIndexes(players) == {i \in 1..Len(players) : ~players[i].isAi}

\* battleStartState of startBattlePhase, computed from the gameState the
\* function captured and the ids generateAiPurchases returned.
battleStartState(captured, itemsToBuyIds) ==
  LET players == captured.players
      withAi ==
        IF AiIndexes(players) # {} /\ HumanIndexes(players) # {}
        THEN LET aiPlayer == players[Min(AiIndexes(players))]
                 bought == aiBuy([souls |-> aiPlayer.souls, inventory |-> aiPlayer.inventory],
                                 itemsToBuyIds)
                 aiStats == calculateStats([aiPlayer EXCEPT !.inventory = bought.inventory])
                 Equip(p) == [p EXCEPT !.souls = bought.souls,
                                       !.inventory = bought.inventory,
                                       !.currentStats = aiStats]
             IN MapPlayer(players, aiPlayer.id, Equip)
        ELSE players
      finalPlayers == [i \in 1..Len(withAi) |-> [withAi[i] EXCEPT !.isReady = FALSE]]
  IN [captured EXCEPT !.players = finalPlayers, !.phase = "BATTLE", !.logs = <<>>]

\* ------------------------------------------------------------------- state
VARIABLES
  gameState,          \* [peer -> GameState]: useState gameState
  gameStateRef,       \* [peer -> GameState]: gameStateRef.current
  isHost,             \* [peer -> BOOLEAN]: useState isHost
  isHostRef,          \* [peer -> BOOLEAN]: isHostRef.current
  isConnected,        \* [peer -> BOOLEAN]: useState isConnected
  myPlayerId,         \* [peer -> id or ""]: useState myPlayerId
  startingBattleRef,  \* [peer -> BOOLEAN]: startingBattleRef.current
  brokerIndexRef,     \* [peer -> 0..2]: brokerIndexRef.current
  mqttClientRef,      \* [peer -> 0 (null) or an index of clients]
  renderPending,      \* [peer -> BOOLEAN]: a state update awaits render + effects
  aiCall,             \* [peer -> <<>> or <<captured gameState>>]: startBattlePhase awaiting generateAiPurchases
  clients,            \* sequence of the MQTT client objects made by connectMqtt
  timers,             \* set of pending setTimeout callbacks
  net,                \* set of messages in flight, each addressed to a client object
  lastOp              \* the handler that ran last and the peer it ran on (history)

vars ==
  <<gameState, gameStateRef, isHost, isHostRef, isConnected, myPlayerId,
    startingBattleRef, brokerIndexRef, mqttClientRef, renderPending, aiCall,
    clients, timers, net, lastOp>>

Op(op, p) == [op |-> op, peer |-> p]

Init ==
  /\ gameState = [p \in Peers |-> InitialGameState]
  /\ gameStateRef = [p \in Peers |-> InitialGameState]
  /\ isHost = [p \in Peers |-> FALSE]
  /\ isHostRef = [p \in Peers |-> FALSE]
  /\ isConnected = [p \in Peers |-> FALSE]
  /\ myPlayerId = [p \in Peers |-> ""]
  /\ startingBattleRef = [p \in Peers |-> FALSE]
  /\ brokerIndexRef = [p \in Peers |-> 0]
  /\ mqttClientRef = [p \in Peers |-> 0]
  /\ renderPending = [p \in Peers |-> FALSE]
  /\ aiCall = [p \in Peers |-> <<>>]
  /\ clients = <<>>
  /\ timers = {}
  /\ net = {}
  /\ lastOp = Op("init", "")

\* ---------------------------------------------------------------- transport
\* The closure connectMqtt and the handlers it registers run in: the render
\* in which handleCreateRoom / handleJoinRoom was called.  handleConnectionFail
\* and handleMessage read isConnected and myPlayerId from it.
Closure(p, isHostRole) ==
  [peer |-> p, code |-> ROOM, isHostRole |-> isHostRole,
   isConnected |-> isConnected[p], myPlayerId |-> myPlayerId[p]]

\* client.subscribe in the 'connect' handler: a host listens on <code>/server,
\* a client on <code>/client
SubTopic(c) == [code |-> c.env.code, side |-> IF c.env.isHostRole THEN "server" ELSE "client"]

\* getMyPublishTopic
getMyPublishTopic(p, code) ==
  [code |-> code, side |-> IF isHostRef[p] THEN "client" ELSE "server"]

\* The connected client objects a broker forwards a publish on topic to
Subscribers(broker, topic) ==
  {j \in 1..Len(clients) :
     /\ clients[j].state = "connected"
     /\ clients[j].broker = broker
     /\ SubTopic(clients[j]) = topic}

\* client.publish(topic, msg) on client object k: what enters the network
Published(k, topic, msg) ==
  IF clients[k].state = "connected"
  THEN {[to |-> j, msg |-> msg] : j \in Subscribers(clients[k].broker, topic)}
  ELSE {}

\* send(msg): what enters the network
send(p, msg) ==
  IF /\ mqttClientRef[p] # 0
     /\ clients[mqttClientRef[p]].state = "connected"
     /\ gameStateRef[p].roomCode # NULL
  THEN Published(mqttClientRef[p], getMyPublishTopic(p, gameStateRef[p].roomCode), msg)
  ELSE {}

\* The transport gives no delivery guarantee: what does not fit is lost.
NetAdd(n, new) == IF Cardinality(n \cup new) <= MaxInFlight THEN n \cup new ELSE n

Msg(type, payload) == [type |-> type, payload |-> payload]

\* mqttClientRef.current.end() for peer p, on the client list cs
EndCurrent(cs, p) ==
  IF mqttClientRef[p] # 0 THEN [cs EXCEPT ![mqttClientRef[p]].state = "ended"] ELSE cs

\* connectMqtt(code, isHostRole) run in closure env with broker index idx:
\* ends the previous client, makes a new one and arms its 6000 ms timeout.
\* pending is the set of timers left pending by the caller.
connectMqtt(env, idx, pending) ==
  /\ Len(clients) < MaxClients
  /\ clients' = Append(EndCurrent(clients, env.peer),
                       [env |-> env, broker |-> idx, state |-> "connecting"])
  /\ mqttClientRef' = [mqttClientRef EXCEPT ![env.peer] = Len(clients) + 1]
  /\ timers' = pending \cup {[kind |-> "connTimeout", client |-> Len(clients) + 1]}

\* handleConnectionFail(code, isHostRole) run in closure env
handleConnectionFail(env, pending) ==
  IF env.isConnected
  THEN /\ timers' = pending
       /\ UNCHANGED <<clients, mqttClientRef, brokerIndexRef>>
  ELSE IF brokerIndexRef[env.peer] + 1 >= Len(BROKERS)
  THEN /\ brokerIndexRef' = [brokerIndexRef EXCEPT ![env.peer] = 0]
       /\ clients' = EndCurrent(clients, env.peer)
       /\ timers' = pending \cup {[kind |-> "retry", env |-> env]}
       /\ UNCHANGED mqttClientRef
  ELSE /\ brokerIndexRef' = [brokerIndexRef EXCEPT ![env.peer] = @ + 1]
       /\ connectMqtt(env, brokerIndexRef[env.peer] + 1, pending)

\* ------------------------------------------------------------ user actions
\* What the user may click follows the render: the login form in LOGIN, the
\* lobby buttons in LOBBY, the shop in SHOP, the reset buttons on the waiting
\* and game-over screens.  The lobby buttons start a connection whose
\* handlers keep the values of the render they were pressed in, so they are
\* pressed on a lobby that has been rendered.

\* gameState.players.find(p => p.id === myPlayerId) || gameState.players[0]
myPlayer(p) ==
  IF hasPlayer(gameState[p].players, myPlayerId[p])
  THEN findPlayer(gameState[p].players, myPlayerId[p])
  ELSE gameState[p].players[1]

handleLogin(p) ==
  /\ gameState[p].phase = "LOGIN"
  /\ myPlayerId' = [myPlayerId EXCEPT ![p] = p]
  /\ gameState' = [gameState EXCEPT ![p].phase = "LOBBY"]
  /\ renderPending' = [renderPending EXCEPT ![p] = TRUE]
  /\ lastOp' = Op("handleLogin", p)
  /\ UNCHANGED <<gameStateRef, isHost, isHostRef, isConnected, startingBattleRef,
                 brokerIndexRef, mqttClientRef, aiCall, clients, timers, net>>

handleCreateRoom(p, mode) ==
  /\ gameState[p].phase = "LOBBY"
  /\ ~renderPending[p]
  /\ isHost' = [isHost EXCEPT ![p] = TRUE]
  /\ renderPending' = [renderPending EXCEPT ![p] = TRUE]
  /\ lastOp' = Op("handleCreateRoom", p)
  /\ IF mode = "PVE"
     THEN /\ gameState' = [gameState EXCEPT ![p] =
                 [@ EXCEPT !.roomCode = ROOM, !.phase = "SHOP",
                           !.players = <<createPlayer(myPlayerId[p], FALSE),
                                         createPlayer(AI_ID, TRUE)>>]]
          /\ UNCHANGED <<clients, mqttClientRef, timers>>
     ELSE /\ connectMqtt(Closure(p, TRUE), brokerIndexRef[p], timers)
          /\ gameState' = [gameState EXCEPT ![p] =
                 [@ EXCEPT !.roomCode = ROOM, !.phase = "WAITING_FOR_OPPONENT",
                           !.players = <<createPlayer(myPlayerId[p], FALSE)>>]]
  /\ UNCHANGED <<gameStateRef, isHostRef, isConnected, myPlayerId, startingBattleRef,
                 brokerIndexRef, aiCall, net>>

handleJoinRoom(p) ==
  /\ gameState[p].phase = "LOBBY"
  /\ ~renderPending[p]
  /\ isHost' = [isHost EXCEPT ![p] = FALSE]
  /\ isConnected' = [isConnected EXCEPT ![p] = FALSE]
  /\ gameState' = [gameState EXCEPT ![p] =
         [@ EXCEPT !.roomCode = ROOM, !.phase = "WAITING_FOR_OPPONENT"]]
  /\ renderPending' = [renderPending EXCEPT ![p] = TRUE]
  /\ connectMqtt(Closure(p, FALSE), brokerIndexRef[p], timers)
  /\ lastOp' = Op("handleJoinRoom", p)
  /\ UNCHANGED <<gameStateRef, isHostRef, myPlayerId, startingBattleRef,
                 brokerIndexRef, aiCall, net>>

Ready(pl) == [pl EXCEPT !.isReady = TRUE]

\* The shop is on screen and not covered by the "waiting for opponent" overlay
ShopOpen(p) ==
  /\ gameState[p].phase = "SHOP"
  /\ gameState[p].players # <<>>
  /\ ~myPlayer(p).isReady

handleBuyItemRequest(p, itemId) ==
  /\ ShopOpen(p)
  /\ hasItem(itemId)
  /\ myPlayer(p).souls >= findItem(itemId).cost     \* the button is disabled otherwise
  /\ IF ~isHost[p]
     THEN /\ net' = NetAdd(net, send(p, Msg("ACTION_BUY",
                        [playerId |-> myPlayerId[p], itemId |-> itemId])))
          /\ lastOp' = Op("requestBuy", p)
          /\ UNCHANGED <<gameState, renderPending>>
     ELSE LET newState == processBuyItem(gameState[p], myPlayerId[p], itemId)
          IN /\ gameState' = [gameState EXCEPT ![p] = newState]
             /\ renderPending' = [renderPending EXCEPT ![p] = @ \/ newState # gameState[p]]
             /\ net' = NetAdd(net, send(p, Msg("SYNC", newState)))
             /\ lastOp' = Op("hostBuy", p)
  /\ UNCHANGED <<gameStateRef, isHost, isHostRef, isConnected, myPlayerId,
                 startingBattleRef, brokerIndexRef, mqttClientRef, aiCall, clients, timers>>

handleShopReady(p) ==
  /\ ShopOpen(p)
  /\ LET newState == [gameState[p] EXCEPT
                        !.players = MapPlayer(gameState[p].players, myPlayerId[p], Ready)]
     IN /\ gameState' = [gameState EXCEPT ![p] = newState]
        /\ renderPending' = [renderPending EXCEPT ![p] = TRUE]
        /\ net' = IF ~isHost[p]
                  THEN NetAdd(net, send(p, Msg("ACTION_READY", [playerId |-> myPlayerId[p]])))
                  ELSE NetAdd(net, send(p, Msg("SYNC", newState)))
  /\ lastOp' = Op("handleShopReady", p)
  /\ UNCHANGED <<gameStateRef, isHost, isHostRef, isConnected, myPlayerId,
                 startingBattleRef, brokerIndexRef, mqttClientRef, aiCall, clients, timers>>

resetGame(p) ==
  /\ gameState[p].phase \in {"WAITING_FOR_OPPONENT", "GAME_OVER"}
  /\ clients' = EndCurrent(clients, p)
  /\ gameState' = [gameState EXCEPT ![p] = [InitialGameState EXCEPT !.phase = "LOBBY"]]
  /\ isHost' = [isHost EXCEPT ![p] = FALSE]
  /\ isConnected' = [isConnected EXCEPT ![p] = FALSE]
  /\ brokerIndexRef' = [brokerIndexRef EXCEPT ![p] = 0]
  /\ renderPending' = [renderPending EXCEPT ![p] = TRUE]
  /\ lastOp' = Op("resetGame", p)
  /\ UNCHANGED <<gameStateRef, isHostRef, myPlayerId, startingBattleRef,
                 mqttClientRef, aiCall, timers, net>>

\* ---------------------------------------------------------- transport events
\* client.on('connect')
MqttConnect(k) ==
  /\ clients[k].state = "connecting"
  /\ clients' = [clients EXCEPT ![k].state = "connected"]
  /\ IF clients[k].env.isHostRole
     THEN /\ isConnected' = [isConnected EXCEPT ![clients[k].env.peer] = TRUE]
          /\ renderPending' = [renderPending EXCEPT ![clients[k].env.peer] = TRUE]
          /\ UNCHANGED timers
     ELSE /\ timers' = timers \cup {[kind |-> "join", client |-> k]}
          /\ UNCHANGED <<isConnected, renderPending>>
  /\ lastOp' = Op("connect", clients[k].env.peer)
  /\ UNCHANGED <<gameState, gameStateRef, isHost, isHostRef, myPlayerId,
                 startingBattleRef, brokerIndexRef, mqttClientRef, aiCall, net>>

\* client.on('error')
MqttError(k) ==
  /\ clients[k].state # "ended"
  /\ handleConnectionFail(clients[k].env, timers)
  /\ lastOp' = Op("error", clients[k].env.peer)
  /\ UNCHANGED <<gameState, gameStateRef, isHost, isHostRef, isConnected, myPlayerId,
                 startingBattleRef, renderPending, aiCall, net>>

\* The 6000 ms timeout armed by connectMqtt for client object k
ConnTimeout(k) ==
  /\ [kind |-> "connTimeout", client |-> k] \in timers
  /\ IF clients[k].state # "connected"
     THEN handleConnectionFail(clients[k].env,
                               timers \ {[kind |-> "connTimeout", client |-> k]})
     ELSE /\ timers' = timers \ {[kind |-> "connTimeout", client |-> k]}
          /\ UNCHANGED <<clients, mqttClientRef, brokerIndexRef>>
  /\ lastOp' = Op("connTimeout", clients[k].env.peer)
  /\ UNCHANGED <<gameState, gameStateRef, isHost, isHostRef, isConnected, myPlayerId,
                 startingBattleRef, renderPending, aiCall, net>>

\* The 2000 ms pause of handleConnectionFail, then connectMqtt
RetryTimer(t) ==
  /\ t \in timers
  /\ t.kind = "retry"
  /\ connectMqtt(t.env, brokerIndexRef[t.env.peer], timers \ {t})
  /\ lastOp' = Op("retry", t.env.peer)
  /\ UNCHANGED <<gameState, gameStateRef, isHost, isHostRef, isConnected, myPlayerId,
                 startingBattleRef, brokerIndexRef, renderPending, aiCall, net>>

\* The 500 ms timer of the client's 'connect' handler: publish JOIN
JoinTimer(k) ==
  /\ [kind |-> "join", client |-> k] \in timers
  /\ timers' = timers \ {[kind |-> "join", client |-> k]}
  /\ net' = NetAdd(net, Published(k, [code |-> clients[k].env.code, side |-> "server"],
                                  Msg("JOIN", [id |-> clients[k].env.myPlayerId])))
  /\ lastOp' = Op("publishJoin", clients[k].env.peer)
  /\ UNCHANGED <<gameState, gameStateRef, isHost, isHostRef, isConnected, myPlayerId,
                 startingBattleRef, brokerIndexRef, mqttClientRef, renderPending,
                 aiCall, clients>>

\* The deferred publishes of the host: WELCOME after 50 ms (JOIN handler),
\* SYNC after 0 ms (ACTION_BUY handler)
SendTimer(t) ==
  /\ t \in timers
  /\ t.kind = "send"
  /\ timers' = timers \ {t}
  /\ net' = NetAdd(net, send(t.peer, t.msg))
  /\ lastOp' = Op("deferredSend", t.peer)
  /\ UNCHANGED <<gameState, gameStateRef, isHost, isHostRef, isConnected, myPlayerId,
                 startingBattleRef, brokerIndexRef, mqttClientRef, renderPending,
                 aiCall, clients>>

\* The transport drops a message
Lose(m) ==
  /\ m \in net
  /\ net' = net \ {m}
  /\ lastOp' = Op("lose", "")
  /\ UNCHANGED <<gameState, gameStateRef, isHost, isHostRef, isConnected, myPlayerId,
                 startingBattleRef, brokerIndexRef, mqttClientRef, renderPending,
                 aiCall, clients, timers>>

\* -------------------------------------------------------------- handleMessage
\* handleMessage(msg) as registered on a client object whose closure is env;
\* rest is the network without the message being handled.

\* Fault variant of clientOnState: the local ready flags are merged into the
\* received state.
clientOnStateMerge(env, msg, rest) ==
  LET p == env.peer
      serverState == msg.payload
      myPlayerExists == env.myPlayerId \in PlayerIds(serverState.players)
      Merged(i) ==
        IF i <= Len(gameState[p].players) /\ gameState[p].players[i].isReady
        THEN [serverState.players[i] EXCEPT !.isReady = TRUE]
        ELSE serverState.players[i]
      merged == [serverState EXCEPT
                   !.players = [i \in 1..Len(serverState.players) |-> Merged(i)]]
  IN /\ ~isHostRef[p]
     /\ msg.type \in {"SYNC", "WELCOME"}
     /\ IF msg.type = "WELCOME" \/ myPlayerExists
        THEN /\ isConnected' = [isConnected EXCEPT ![p] = IF ~env.isConnected THEN TRUE ELSE @]
             /\ gameState' = [gameState EXCEPT ![p] = merged]
             /\ renderPending' = [renderPending EXCEPT ![p] = TRUE]
             /\ lastOp' = Op("accept", p)
        ELSE /\ lastOp' = Op("reject", p)
             /\ UNCHANGED <<gameState, isConnected, renderPending>>
     /\ net' = rest
     /\ UNCHANGED timers

\* CLIENT LOGIC (Receiving State)
clientOnState(env, msg, rest) ==
  LET p == env.peer
      serverState == msg.payload
      myPlayerExists == env.myPlayerId \in PlayerIds(serverState.players)
  IN /\ ~isHostRef[p]
     /\ msg.type \in {"SYNC", "WELCOME"}
     /\ IF msg.type = "WELCOME" \/ myPlayerExists
        THEN /\ isConnected' = [isConnected EXCEPT ![p] = IF ~env.isConnected THEN TRUE ELSE @]
             /\ gameState' = [gameState EXCEPT ![p] = serverState]
             /\ renderPending' = [renderPending EXCEPT ![p] = TRUE]
             /\ lastOp' = Op("accept", p)
        ELSE /\ lastOp' = Op("reject", p)
             /\ UNCHANGED <<gameState, isConnected, renderPending>>
     /\ net' = rest
     /\ UNCHANGED timers

\* Fault variant of hostOnJoin: the lookup of the existing player is left out.
hostOnJoinNoLookup(env, msg, rest) ==
  LET p == env.peer
      id == msg.payload.id
      currentState == gameStateRef[p]
      newState == [currentState EXCEPT !.players = Append(@, createPlayer(id, FALSE)),
                                       !.phase = "SHOP"]
  IN /\ isHostRef[p]
     /\ msg.type = "JOIN"
     /\ IF Len(currentState.players) >= 2
        THEN /\ net' = rest
             /\ lastOp' = Op("JOIN_FULL", p)
             /\ UNCHANGED <<gameState, renderPending, timers>>
        ELSE /\ gameState' = [gameState EXCEPT ![p] = newState]
             /\ renderPending' = [renderPending EXCEPT ![p] = TRUE]
             /\ timers' = timers \cup {[kind |-> "send", peer |-> p,
                                        msg |-> Msg("WELCOME", newState)]}
             /\ net' = rest
             /\ lastOp' = Op("JOIN_NEW", p)
     /\ UNCHANGED isConnected

\* Fault variant of hostOnJoin: a full room still takes the player in.
hostOnJoinNoFull(env, msg, rest) ==
  LET p == env.peer
      id == msg.payload.id
      currentState == gameStateRef[p]
      newState == [currentState EXCEPT !.players = Append(@, createPlayer(id, FALSE)),
                                       !.phase = "SHOP"]
  IN /\ isHostRef[p]
     /\ msg.type = "JOIN"
     /\ IF hasPlayer(currentState.players, id)
        THEN /\ net' = NetAdd(rest, send(p, Msg("SYNC", currentState)))
             /\ lastOp' = Op("JOIN_EXISTING", p)
             /\ UNCHANGED <<gameState, renderPending, timers>>
        ELSE /\ gameState' = [gameState EXCEPT ![p] = newState]
             /\ renderPending' = [renderPending EXCEPT ![p] = TRUE]
             /\ timers' = timers \cup {[kind |-> "send", peer |-> p,
                                        msg |-> Msg("WELCOME", newState)]}
             /\ net' = rest
             /\ lastOp' = Op("JOIN_NEW", p)
     /\ UNCHANGED isConnected

\* HOST LOGIC: JOIN
hostOnJoin(env, msg, rest) ==
  LET p == env.peer
      id == msg.payload.id
      currentState == gameStateRef[p]
      newState == [currentState EXCEPT !.players = Append(@, createPlayer(id, FALSE)),
                                       !.phase = "SHOP"]
  IN /\ isHostRef[p]
     /\ msg.type = "JOIN"
     /\ IF hasPlayer(currentState.players, id)
        THEN /\ net' = NetAdd(rest, send(p, Msg("SYNC", currentState)))
             /\ lastOp' = Op("JOIN_EXISTING", p)
             /\ UNCHANGED <<gameState, renderPending, timers>>
        ELSE IF Len(currentState.players) >= 2
        THEN /\ net' = rest
             /\ lastOp' = Op("JOIN_FULL", p)
             /\ UNCHANGED <<gameState, renderPending, timers>>
        ELSE /\ gameState' = [gameState EXCEPT ![p] = newState]
             /\ renderPending' = [renderPending EXCEPT ![p] = TRUE]
             /\ timers' = timers \cup {[kind |-> "send", peer |-> p,
                                        msg |-> Msg("WELCOME", newState)]}
             /\ net' = rest
             /\ lastOp' = Op("JOIN_NEW", p)
     /\ UNCHANGED isConnected

\* HOST LOGIC: ACTION_BUY
hostOnActionBuy(env, msg, rest) ==
  LET p == env.peer
      newState == processBuyItem(gameState[p], msg.payload.playerId, msg.payload.itemId)
  IN /\ isHostRef[p]
     /\ msg.type = "ACTION_BUY"
     /\ gameState' = [gameState EXCEPT ![p] = newState]
     /\ renderPending' = [renderPending EXCEPT ![p] = @ \/ newState # gameState[p]]
     /\ timers' = timers \cup {[kind |-> "send", peer |-> p, msg |-> Msg("SYNC", newState)]}
     /\ net' = rest
     /\ lastOp' = Op("ACTION_BUY", p)
     /\ UNCHANGED isConnected

\* HOST LOGIC: ACTION_READY
\* Fault variant of hostOnActionReady: the published state is built from the
\* last rendered state, not from the state the update is applied to.
hostOnActionReadyStale(env, msg, rest) ==
  LET p == env.peer
      newState == [gameState[p] EXCEPT
                     !.players = MapPlayer(gameState[p].players, msg.payload.playerId, Ready)]
      staleState == [gameStateRef[p] EXCEPT
                       !.players = MapPlayer(gameStateRef[p].players, msg.payload.playerId, Ready)]
  IN /\ isHostRef[p]
     /\ msg.type = "ACTION_READY"
     /\ gameState' = [gameState EXCEPT ![p] = newState]
     /\ renderPending' = [renderPending EXCEPT ![p] = TRUE]
     /\ net' = NetAdd(rest, send(p, Msg("SYNC", staleState)))
     /\ lastOp' = Op("ACTION_READY", p)
     /\ UNCHANGED <<isConnected, timers>>

hostOnActionReady(env, msg, rest) ==
  LET p == env.peer
      newState == [gameState[p] EXCEPT
                     !.players = MapPlayer(gameState[p].players, msg.payload.playerId, Ready)]
  IN /\ isHostRef[p]
     /\ msg.type = "ACTION_READY"
     /\ gameState' = [gameState EXCEPT ![p] = newState]
     /\ renderPending' = [renderPending EXCEPT ![p] = TRUE]
     /\ net' = NetAdd(rest, send(p, Msg("SYNC", newState)))
     /\ lastOp' = Op("ACTION_READY", p)
     /\ UNCHANGED <<isConnected, timers>>

\* A message of a kind the receiving role does not handle
ignored(env, msg, rest) ==
  /\ \/ ~isHostRef[env.peer] /\ msg.type \notin {"SYNC", "WELCOME"}
     \/ isHostRef[env.peer] /\ msg.type \notin {"JOIN", "ACTION_BUY", "ACTION_READY"}
  /\ net' = rest
  /\ lastOp' = Op("ignored", env.peer)
  /\ UNCHANGED <<gameState, isConnected, renderPending, timers>>

handleMessage(env, msg, rest) ==
  /\ \/ clientOnState(env, msg, rest)
     \/ hostOnJoin(env, msg, rest)
     \/ hostOnActionBuy(env, msg, rest)
     \/ hostOnActionReady(env, msg, rest)
     \/ ignored(env, msg, rest)
  /\ UNCHANGED <<gameStateRef, isHost, isHostRef, myPlayerId, startingBattleRef,
                 brokerIndexRef, mqttClientRef, aiCall, clients>>

\* client.on('message') of the client object a message in flight is addressed to
Deliver(m) ==
  /\ m \in net
  /\ clients[m.to].state = "connected"
  /\ handleMessage(clients[m.to].env, m.msg, net \ {m})

\* ------------------------------------------------------- effects and timers
allReady(players) == \A i \in 1..Len(players) : players[i].isReady \/ players[i].isAi

\* send(msg) as it runs once the ref-syncing effects of this render have run
sendSynced(p, msg) ==
  IF /\ mqttClientRef[p] # 0
     /\ clients[mqttClientRef[p]].state = "connected"
     /\ gameState[p].roomCode # NULL
  THEN Published(mqttClientRef[p],
                 [code |-> gameState[p].roomCode,
                  side |-> IF isHost[p] THEN "client" ELSE "server"],
                 msg)
  ELSE {}

\* Fault variant of RunEffects: the all-ready check does not look at the latch.
RunEffectsNoLatch(p) ==
  /\ renderPending[p]
  /\ isHostRef' = [isHostRef EXCEPT ![p] = isHost[p]]
  /\ gameStateRef' = [gameStateRef EXCEPT ![p] = gameState[p]]
  /\ IF /\ isHost[p]
        /\ gameState[p].phase = "SHOP"
        /\ Len(gameState[p].players) >= 2
        /\ allReady(gameState[p].players)
     THEN IF AiIndexes(gameState[p].players) # {} /\ HumanIndexes(gameState[p].players) # {}
          THEN /\ startingBattleRef' = [startingBattleRef EXCEPT ![p] = TRUE]
               /\ aiCall' = [aiCall EXCEPT ![p] = <<gameState[p]>>]
               /\ renderPending' = [renderPending EXCEPT ![p] = FALSE]
               /\ lastOp' = Op("startBattleAwait", p)
               /\ UNCHANGED <<gameState, net>>
          ELSE LET battle == battleStartState(gameState[p], <<>>)
               IN /\ gameState' = [gameState EXCEPT ![p] = battle]
                  /\ net' = NetAdd(net, sendSynced(p, Msg("SYNC", battle)))
                  /\ lastOp' = Op("startBattle", p)
                  /\ UNCHANGED <<startingBattleRef, aiCall, renderPending>>
     ELSE /\ renderPending' = [renderPending EXCEPT ![p] = FALSE]
          /\ lastOp' = Op("render", p)
          /\ UNCHANGED <<gameState, startingBattleRef, aiCall, net>>
  /\ UNCHANGED <<isHost, isConnected, myPlayerId, brokerIndexRef, mqttClientRef,
                 clients, timers>>

\* The render after a state update and the effects it runs, in source order:
\* isHostRef and gameStateRef are synced, then the all-ready check calls
\* startBattlePhase, which either awaits generateAiPurchases (an AI and a
\* human player) or runs to its end at once.
RunEffects(p) ==
  /\ renderPending[p]
  /\ isHostRef' = [isHostRef EXCEPT ![p] = isHost[p]]
  /\ gameStateRef' = [gameStateRef EXCEPT ![p] = gameState[p]]
  /\ IF /\ isHost[p]
        /\ gameState[p].phase = "SHOP"
        /\ Len(gameState[p].players) >= 2
        /\ allReady(gameState[p].players)
        /\ ~startingBattleRef[p]
     THEN IF AiIndexes(gameState[p].players) # {} /\ HumanIndexes(gameState[p].players) # {}
          THEN /\ startingBattleRef' = [startingBattleRef EXCEPT ![p] = TRUE]
               /\ aiCall' = [aiCall EXCEPT ![p] = <<gameState[p]>>]
               /\ renderPending' = [renderPending EXCEPT ![p] = FALSE]
               /\ lastOp' = Op("startBattleAwait", p)
               /\ UNCHANGED <<gameState, net>>
          ELSE LET battle == battleStartState(gameState[p], <<>>)
               IN /\ gameState' = [gameState EXCEPT ![p] = battle]
                  /\ net' = NetAdd(net, sendSynced(p, Msg("SYNC", battle)))
                  /\ lastOp' = Op("startBattle", p)
                  /\ UNCHANGED <<startingBattleRef, aiCall, renderPending>>
     ELSE /\ renderPending' = [renderPending EXCEPT ![p] = FALSE]
          /\ lastOp' = Op("render", p)
          /\ UNCHANGED <<gameState, startingBattleRef, aiCall, net>>
  /\ UNCHANGED <<isHost, isConnected, myPlayerId, brokerIndexRef, mqttClientRef,
                 clients, timers>>

\* generateAiPurchases resolves with itemsToBuyIds and startBattlePhase runs on
aiPurchasesReturn(p, itemsToBuyIds) ==
  /\ aiCall[p] # <<>>
  /\ LET battle == battleStartState(aiCall[p][1], itemsToBuyIds)
     IN /\ gameState' = [gameState EXCEPT ![p] = battle]
        /\ net' = NetAdd(net, send(p, Msg("SYNC", battle)))
  /\ renderPending' = [renderPending EXCEPT ![p] = TRUE]
  /\ startingBattleRef' = [startingBattleRef EXCEPT ![p] = FALSE]
  /\ aiCall' = [aiCall EXCEPT ![p] = <<>>]
  /\ lastOp' = Op("startBattle", p)
  /\ UNCHANGED <<gameStateRef, isHost, isHostRef, isConnected, myPlayerId,
                 brokerIndexRef, mqttClientRef, clients, timers>>

\* generateAiPurchases rejects: startBattlePhase ends at its await, and the
\* catch and finally callbacks of the all-ready effect release the latch.  No
\* state is set, so nothing is rendered and no effect runs again.
aiPurchasesFail(p) ==
  /\ aiCall[p] # <<>>
  /\ startingBattleRef' = [startingBattleRef EXCEPT ![p] = FALSE]
  /\ aiCall' = [aiCall EXCEPT ![p] = <<>>]
  /\ lastOp' = Op("startBattleFailed", p)
  /\ UNCHANGED <<gameState, gameStateRef, isHost, isHostRef, isConnected, myPlayerId,
                 brokerIndexRef, mqttClientRef, renderPending, clients, timers, net>>

\* Fault variant of heartbeat: a tick publishes only after a state change.
heartbeatOnChange(p) ==
  /\ isHost[p] /\ isHostRef[p]
  /\ gameStateRef[p] # gameState[p]
  /\ gameStateRef[p].phase # "LOGIN"
  /\ send(p, Msg("SYNC", gameState[p])) # {}
  /\ net' = NetAdd(net, send(p, Msg("SYNC", gameState[p])))
  /\ lastOp' = Op("heartbeat", p)
  /\ UNCHANGED <<gameState, gameStateRef, isHost, isHostRef, isConnected, myPlayerId,
                 startingBattleRef, brokerIndexRef, mqttClientRef, renderPending,
                 aiCall, clients, timers>>

\* HOST HEARTBEAT: the 1 s interval
heartbeat(p) ==
  /\ isHost[p] /\ isHostRef[p]
  /\ gameStateRef[p].phase # "LOGIN"
  /\ send(p, Msg("SYNC", gameStateRef[p])) # {}
  /\ net' = NetAdd(net, send(p, Msg("SYNC", gameStateRef[p])))
  /\ lastOp' = Op("heartbeat", p)
  /\ UNCHANGED <<gameState, gameStateRef, isHost, isHostRef, isConnected, myPlayerId,
                 startingBattleRef, brokerIndexRef, mqttClientRef, renderPending,
                 aiCall, clients, timers>>

\* CLIENT RE-JOIN: the 2 s interval, installed by a render with
\* !isHost, isConnected and phase WAITING_FOR_OPPONENT
rejoin(p) ==
  /\ ~isHost[p] /\ isConnected[p]
  /\ ~renderPending[p]
  /\ gameState[p].phase = "WAITING_FOR_OPPONENT"
  /\ mqttClientRef[p] # 0
  /\ clients[mqttClientRef[p]].state = "connected"
  /\ gameState[p].roomCode # NULL
  /\ net' = NetAdd(net, Published(mqttClientRef[p],
                                  [code |-> gameState[p].roomCode, side |-> "server"],
                                  Msg("JOIN", [id |-> myPlayerId[p]])))
  /\ lastOp' = Op("publishJoin", p)
  /\ UNCHANGED <<gameState, gameStateRef, isHost, isHostRef, isConnected, myPlayerId,
                 startingBattleRef, brokerIndexRef, mqttClientRef, renderPending,
                 aiCall, clients, timers>>

\* The 1500 ms turn timer of a render with isHost and phase BATTLE: executeTurn
executeTurn(p, weaponIdx, critDraw) ==
  /\ isHost[p]
  /\ ~renderPending[p]
  /\ gameState[p].phase = "BATTLE"
  /\ Len(gameState[p].players) = 2
  /\ weaponIdx \in WeaponDraws(gameState[p].players[gameState[p].currentTurnIndex + 1])
  /\ LET nextState == turnState(gameState[p], weaponIdx, critDraw)
     IN /\ gameState' = [gameState EXCEPT ![p] = nextState]
        /\ net' = NetAdd(net, send(p, Msg("SYNC", nextState)))
  /\ renderPending' = [renderPending EXCEPT ![p] = TRUE]
  /\ lastOp' = Op("executeTurn", p)
  /\ UNCHANGED <<gameStateRef, isHost, isHostRef, isConnected, myPlayerId,
                 startingBattleRef, brokerIndexRef, mqttClientRef, aiCall, clients, timers>>

\* The 3000 ms timer of a render with isHost, phase ROUND_RESULT and a round
\* winner: handleNextRound
handleNextRound(p) ==
  /\ isHost[p]
  /\ ~renderPending[p]
  /\ gameState[p].phase = "ROUND_RESULT"
  /\ gameState[p].roundWinnerId # NULL
  /\ Len(gameState[p].players) = 2
  /\ LET nextState == nextRoundState(gameState[p])
     IN /\ gameState' = [gameState EXCEPT ![p] = nextState]
        /\ net' = NetAdd(net, send(p, Msg("SYNC", nextState)))
  /\ renderPending' = [renderPending EXCEPT ![p] = TRUE]
  /\ lastOp' = Op("handleNextRound", p)
  /\ UNCHANGED <<gameStateRef, isHost, isHostRef, isConnected, myPlayerId,
                 startingBattleRef, brokerIndexRef, mqttClientRef, aiCall, clients, timers>>

\* --------------------------------------------------------------- the timers
\* The turn and round-result timers are set by an effect of a render and
\* cleared by its cleanup when a later render changes the effect's
\* dependencies.  A timer is therefore pending from the render that set it
\* (whose isHost and gameState the refs hold) until it fires; it may fire
\* while a later state update still awaits its render.  Every turn appends to
\* the log and every round scoring adds a win, which tells whether the timer
\* of the last render has fired.
RECURSIVE TotalWins(_)
TotalWins(players) ==
  IF players = <<>> THEN 0 ELSE Head(players).wins + TotalWins(Tail(players))

\* Fault variant of TurnTimerPending: an interval in place of a timeout, which
\* keeps firing until the next render clears it.
TurnTimerPendingInterval(p) ==
  /\ isHostRef[p]
  /\ gameStateRef[p].phase = "BATTLE"

\* Fault variant of TurnTimerPending: the effect does not depend on the turn
\* index, so the timer is set once per BATTLE phase.
TurnTimerPendingOnce(p) ==
  /\ isHostRef[p]
  /\ gameStateRef[p].phase = "BATTLE"
  /\ gameState[p].logs = <<>>

\* setTimeout(() => executeTurn(), 1500) of the last render is pending
TurnTimerPending(p) ==
  /\ isHostRef[p]
  /\ gameStateRef[p].phase = "BATTLE"
  /\ gameState[p].logs = gameStateRef[p].logs

\* Fault variant of RoundTimerPending: an interval in place of a timeout.
RoundTimerPendingInterval(p) ==
  /\ isHostRef[p]
  /\ gameStateRef[p].phase = "ROUND_RESULT"
  /\ gameStateRef[p].roundWinnerId # NULL

\* setTimeout(() => handleNextRound(), 3000) of the last render is pending
RoundTimerPending(p) ==
  /\ isHostRef[p]
  /\ gameStateRef[p].phase = "ROUND_RESULT"
  /\ gameStateRef[p].roundWinnerId # NULL
  /\ TotalWins(gameState[p].players) = TotalWins(gameStateRef[p].players)

\* The turn timer fires: executeTurn of the render that set it runs its
\* reducer on the state of that moment, whatever its phase.  (With fewer than
\* two players the reducer would throw; the timer is never pending then.)
turnTimerFires(p, weaponIdx, critDraw) ==
  /\ TurnTimerPending(p)
  /\ Len(gameState[p].players) = 2
  /\ weaponIdx \in WeaponDraws(gameState[p].players[gameState[p].currentTurnIndex + 1])
  /\ LET nextState == turnState(gameState[p], weaponIdx, critDraw)
     IN /\ gameState' = [gameState EXCEPT ![p] = nextState]
        /\ net' = NetAdd(net, send(p, Msg("SYNC", nextState)))
  /\ renderPending' = [renderPending EXCEPT ![p] = TRUE]
  /\ lastOp' = Op("executeTurn", p)
  /\ UNCHANGED <<gameStateRef, isHost, isHostRef, isConnected, myPlayerId,
                 startingBattleRef, brokerIndexRef, mqttClientRef, aiCall, clients, timers>>

\* The round-result timer fires: handleNextRound runs its reducer on the state
\* of that moment, whatever its phase.
roundTimerFires(p) ==
  /\ RoundTimerPending(p)
  /\ Len(gameState[p].players) = 2
  /\ LET nextState == nextRoundState(gameState[p])
     IN /\ gameState' = [gameState EXCEPT ![p] = nextState]
        /\ net' = NetAdd(net, send(p, Msg("SYNC", nextState)))
  /\ renderPending' = [renderPending EXCEPT ![p] = TRUE]
  /\ lastOp' = Op("handleNextRound", p)
  /\ UNCHANGED <<gameStateRef, isHost, isHostRef, isConnected, myPlayerId,
                 startingBattleRef, brokerIndexRef, mqttClientRef, aiCall, clients, timers>>

\* ------------------------------------------------------------ specifications
\* Who creates the room and who joins it
Hosts == {"p1"}
Joiners == {"p2"}

\* The shop buttons the users press and the ids generateAiPurchases suggests
MatchBuyIds == {"w_zweihander", "a_knight"}
AiSuggestions == {<<>>, <<"w_zweihander">>, <<"no_such_item", "a_knight", "a_knight">>}

RECURSIVE TotalItems(_)
TotalItems(players) ==
  IF players = <<>> THEN 0 ELSE Len(Head(players).inventory) + TotalItems(Tail(players))

CritsIn(logs) == Cardinality({i \in 1..Len(logs) : logs[i].isCrit})

UserBuy(p, ids) ==
  \E itemId \in ids :
    /\ TotalItems(gameState[p].players) < MaxItems
    /\ handleBuyItemRequest(p, itemId)

TurnTimer(p) ==
  \E weaponIdx \in 0..4, critDraw \in CritDraws :
    /\ gameState[p].phase = "BATTLE"
    /\ Len(gameState[p].players) = 2
    /\ isCrit(gameState[p].players[gameState[p].currentTurnIndex + 1], critDraw)
         => CritsIn(gameState[p].logs) < MaxCrits
    /\ executeTurn(p, weaponIdx, critDraw)

AiReturn(p) == \E ids \in AiSuggestions : aiPurchasesReturn(p, ids)

\* A single-player match against the AI opponent: no transport is opened.
NextPve ==
  \E p \in Hosts :
    \/ handleLogin(p)
    \/ handleCreateRoom(p, "PVE")
    \/ UserBuy(p, MatchBuyIds)
    \/ handleShopReady(p)
    \/ RunEffects(p)
    \/ AiReturn(p)
    \/ TurnTimer(p)
    \/ handleNextRound(p)
    \/ resetGame(p)

SpecPve == Init /\ [][NextPve]_vars

\* The shop phase of the host, for both kinds of room, up to the start of the
\* battle.  The room's topic is open to every publisher: the intents that
\* reach the host are drawn from InboundMsgs.
ShopBuyIds == {"a_havel", "r_life"}
RemoteBuyIds == {"w_longsword", "r_life", "no_such_item"}
RemoteIds == {"p2", "p3"}
ShopAiSuggestions ==
  {<<>>, <<"w_longsword", "w_longsword", "w_longsword", "a_knight", "a_knight">>,
   <<"no_such_item", "a_knight", "a_havel", "s_arrow", "s_arrow", "s_arrow">>,
   <<"r_life", "r_life", "r_life", "r_life", "r_life", "w_moonlight">>}

JoinMsgs == {Msg("JOIN", [id |-> i]) : i \in Hosts \cup Joiners}
BuyMsgs ==
  {Msg("ACTION_BUY", [playerId |-> i, itemId |-> x]) :
     i \in RemoteIds, x \in RemoteBuyIds}
ReadyMsgs == {Msg("ACTION_READY", [playerId |-> i]) : i \in RemoteIds}

PendingSends == {t \in timers : t.kind = "send"}

\* client.on('message') of the host's client object with a message of msgs.
\* Nobody listens to the host here, so its deferred publishes (0 ms, 50 ms)
\* are let run before the next message is handled.
Inbound(k, msgs) ==
  \E msg \in msgs :
    /\ clients[k].state = "connected"
    /\ clients[k].env.isHostRole
    /\ PendingSends = {}
    /\ handleMessage(clients[k].env, msg, net)

ShopBuy(p) ==
  \E itemId \in ShopBuyIds :
    /\ TotalItems(gameState[p].players) <= MaxShopItems
    /\ handleBuyItemRequest(p, itemId)

InboundBuy(k) ==
  /\ TotalItems(gameState[clients[k].env.peer].players) <= MaxShopItems
  /\ Inbound(k, BuyMsgs)

NextShop ==
  \/ \E p \in Hosts : handleLogin(p)
  \/ \E p \in Hosts : handleCreateRoom(p, "PVE")
  \/ \E p \in Hosts : handleCreateRoom(p, "PVP")
  \/ \E k \in 1..Len(clients) : MqttConnect(k)
  \/ \E k \in 1..Len(clients) : Inbound(k, JoinMsgs)
  \/ \E k \in 1..Len(clients) : InboundBuy(k)
  \/ \E k \in 1..Len(clients) : Inbound(k, ReadyMsgs)
  \/ \E t \in timers : SendTimer(t)
  \/ \E p \in Hosts : ShopBuy(p)
  \/ \E p \in Hosts : handleShopReady(p)
  \/ \E p \in Hosts : RunEffects(p)
  \/ \E p \in Hosts : \E ids \in ShopAiSuggestions : aiPurchasesReturn(p, ids)

SpecShop == Init /\ [][NextShop]_vars

\* The host of a PVP room and the JOINs that reach it, from any id and in any
\* order with the host's other transitions, up to the start of the battle.
JoinIds == {"p1", "p2", "p3"}
AnyJoinMsgs == {Msg("JOIN", [id |-> i]) : i \in JoinIds}
JoinBuyMsgs ==
  {Msg("ACTION_BUY", [playerId |-> i, itemId |-> "w_longsword"]) : i \in RemoteIds}

InboundJoinBuy(k) ==
  /\ TotalItems(gameState[clients[k].env.peer].players) < MaxItems
  /\ Inbound(k, JoinBuyMsgs)

NextJoin ==
  \/ \E p \in Hosts : handleLogin(p)
  \/ \E p \in Hosts : handleCreateRoom(p, "PVP")
  \/ \E k \in 1..Len(clients) : MqttConnect(k)
  \/ \E k \in 1..Len(clients) : Inbound(k, AnyJoinMsgs)
  \/ \E k \in 1..Len(clients) : InboundJoinBuy(k)
  \/ \E k \in 1..Len(clients) : Inbound(k, ReadyMsgs)
  \/ \E t \in timers : SendTimer(t)
  \/ \E p \in Hosts : UserBuy(p, MatchBuyIds)
  \/ \E p \in Hosts : handleShopReady(p)
  \/ \E p \in Hosts : RunEffects(p)
  \/ \E p \in Hosts : resetGame(p)

SpecJoin == Init /\ [][NextJoin]_vars

\* The shop phase of a host who may have left a room before: the connection
\* timeout of the room it left is still pending (resetGame cancels no timer)
\* and can open a connection that delivers intents while the host plays
\* against the AI, also while startBattlePhase awaits the AI's purchases.
LatchBuyMsgs ==
  {Msg("ACTION_BUY", [playerId |-> i, itemId |-> "r_life"]) : i \in {"p1", "p2", AI_ID}}
LatchJoinMsgs == {Msg("JOIN", [id |-> "p2"])}
LatchReadyMsgs == {Msg("ACTION_READY", [playerId |-> "p2"])}

InboundLatchBuy(k) ==
  /\ TotalItems(gameState[clients[k].env.peer].players) < MaxItems
  /\ Inbound(k, LatchBuyMsgs)

NextLatch ==
  \/ \E p \in Hosts : handleLogin(p)
  \/ \E p \in Hosts : handleCreateRoom(p, "PVE")
  \/ \E p \in Hosts : handleCreateRoom(p, "PVP")
  \/ \E p \in Hosts : resetGame(p)
  \/ \E k \in 1..Len(clients) : MqttConnect(k)
  \/ \E k \in 1..Len(clients) : ConnTimeout(k)
  \/ \E k \in 1..Len(clients) : Inbound(k, LatchJoinMsgs)
  \/ \E k \in 1..Len(clients) : InboundLatchBuy(k)
  \/ \E k \in 1..Len(clients) : Inbound(k, LatchReadyMsgs)
  \/ \E t \in timers : SendTimer(t)
  \/ \E p \in Hosts : handleShopReady(p)
  \/ \E p \in Hosts : RunEffects(p)
  \/ \E p \in Hosts : AiReturn(p)

SpecLatch == Init /\ [][NextLatch]_vars

\* The first round of a PVP match of a host and one client over a transport
\* that delivers in any order.  The client's topic is open to every publisher:
\* intents (JOIN, ACTION_BUY, ACTION_READY) may reach the client's message
\* handler too.  The client buys at most one item, on a quiet network; turns
\* are drawn without critical hits; turn pacing (1500 ms) and the round-result
\* delay (3000 ms) are long against a delivery, so the network has drained
\* when they fire.
MirrorBuyIds == {"w_zweihander"}
MirrorIntents ==
  {Msg("JOIN", [id |-> "p3"]),
   Msg("ACTION_BUY", [playerId |-> "p2", itemId |-> "w_zweihander"]),
   Msg("ACTION_READY", [playerId |-> "p2"])}

\* client.on('message') of a connected client-role object with an intent
InboundIntent(k) ==
  \E msg \in MirrorIntents :
    /\ clients[k].state = "connected"
    /\ ~clients[k].env.isHostRole
    /\ lastOp.op # "ignored"
    /\ handleMessage(clients[k].env, msg, net)

MirrorBuy(p) ==
  /\ gameState[p].round = 1
  /\ net = {} /\ PendingSends = {}
  /\ TotalItems(gameState[p].players) = 0
  /\ UserBuy(p, MirrorBuyIds)
MirrorReady(p) == gameState[p].round = 1 /\ handleShopReady(p)
MirrorTurn(p) == net = {} /\ \E weaponIdx \in 0..1 : executeTurn(p, weaponIdx, 99)
MirrorNextRound(p) == net = {} /\ handleNextRound(p)

NextMirror ==
  \/ \E p \in Hosts \cup Joiners : handleLogin(p)
  \/ \E p \in Hosts : handleCreateRoom(p, "PVP")
  \/ \E p \in Joiners : handleJoinRoom(p)
  \/ \E k \in 1..Len(clients) : MqttConnect(k)
  \/ \E k \in 1..Len(clients) : JoinTimer(k)
  \/ \E t \in timers : SendTimer(t)
  \/ \E m \in net : Deliver(m)
  \/ \E k \in 1..Len(clients) : InboundIntent(k)
  \/ \E p \in Joiners : MirrorBuy(p)
  \/ \E p \in Hosts \cup Joiners : MirrorReady(p)
  \/ \E p \in Hosts \cup Joiners : RunEffects(p)
  \/ \E p \in Hosts \cup Joiners : MirrorTurn(p)
  \/ \E p \in Hosts \cup Joiners : MirrorNextRound(p)

SpecMirror == Init /\ [][NextMirror]_vars

\* The battle of the deciding round of a single-player match: both players
\* have won one round and spent their earnings on one of the loadouts below
\* (bare hands, the heaviest armour with four steel rings, the red tearstone
\* ring with and without a weapon, a dexterity weapon with a spell).  The
\* first state is the one rendered after the start of the battle; either
\* player may hold the turn, since no transition resets the turn index.
DamageInventories ==
  {<<>>,
   <<"a_havel">>,
   <<"a_havel", "r_steel", "r_steel", "r_steel", "r_steel">>,
   <<"r_rtsr">>,
   <<"w_zweihander", "r_rtsr">>,
   <<"w_uchigatana", "s_spear">>}

RECURSIVE InventoryCost(_)
InventoryCost(inventory) ==
  IF inventory = <<>> THEN 0
  ELSE findItem(Head(inventory)).cost + InventoryCost(Tail(inventory))

\* Souls earned by a player who won one round and lost one
DamageBudget == INITIAL_SOULS + ROUND_WIN_BONUS + ROUND_LOSS_BONUS

DamagePlayer(id, isAi, inventory) ==
  [id |-> id, isAi |-> isAi, souls |-> DamageBudget - InventoryCost(inventory),
   inventory |-> inventory, currentStats |-> calculateStats([inventory |-> inventory]),
   wins |-> 1, isReady |-> FALSE]

DamageBattle(inv1, inv2, turn) ==
  [InitialGameState EXCEPT
     !.phase = "BATTLE", !.round = MAX_ROUNDS, !.roomCode = ROOM,
     !.players = <<DamagePlayer("p1", FALSE, inv1), DamagePlayer(AI_ID, TRUE, inv2)>>,
     !.currentTurnIndex = turn]

InitDamage ==
  \E inv1 \in DamageInventories, inv2 \in DamageInventories, turn \in {0, 1} :
    /\ InventoryCost(inv1) <= DamageBudget
    /\ InventoryCost(inv2) <= DamageBudget
    /\ gameState = [p \in Peers |-> IF p = "p1" THEN DamageBattle(inv1, inv2, turn)
                                   ELSE InitialGameState]
    /\ gameStateRef = gameState
    /\ isHost = [p \in Peers |-> p = "p1"]
    /\ isHostRef = isHost
    /\ isConnected = [p \in Peers |-> FALSE]
    /\ myPlayerId = [p \in Peers |-> IF p = "p1" THEN "p1" ELSE ""]
    /\ startingBattleRef = [p \in Peers |-> FALSE]
    /\ brokerIndexRef = [p \in Peers |-> 0]
    /\ mqttClientRef = [p \in Peers |-> 0]
    /\ renderPending = [p \in Peers |-> FALSE]
    /\ aiCall = [p \in Peers |-> <<>>]
    /\ clients = <<>>
    /\ timers = {}
    /\ net = {}
    /\ lastOp = Op("render", "p1")

NextDamage ==
  \/ \E p \in Hosts : RunEffects(p)
  \/ \E p \in Hosts : TurnTimer(p)

SpecDamage == InitDamage /\ [][NextDamage]_vars

\* Whole matches of a host, against the AI or in a room whose topic is open to
\* every publisher: JOIN, ACTION_BUY and ACTION_READY reach the host in every
\* phase, also between a state update and its render, and the timers fire
\* whenever they are pending.
HostMatchJoinMsgs == {Msg("JOIN", [id |-> i]) : i \in {"p2", "p3"}}
HostMatchBuyMsgs == {Msg("ACTION_BUY", [playerId |-> "p2", itemId |-> "w_zweihander"])}
HostMatchReadyMsgs == {Msg("ACTION_READY", [playerId |-> "p2"])}

InboundHostMatchBuy(k) ==
  /\ TotalItems(gameState[clients[k].env.peer].players) < MaxItems
  /\ Inbound(k, HostMatchBuyMsgs)

\* Turns are drawn without critical hits
TurnTimeout(p) == \E weaponIdx \in 0..4 : turnTimerFires(p, weaponIdx, 99)

NextHostMatch ==
  \/ \E p \in Hosts : handleLogin(p)
  \/ \E p \in Hosts : handleCreateRoom(p, "PVE")
  \/ \E p \in Hosts : handleCreateRoom(p, "PVP")
  \/ \E p \in Hosts : resetGame(p)
  \/ \E k \in 1..Len(clients) : MqttConnect(k)
  \/ \E k \in 1..Len(clients) : Inbound(k, HostMatchJoinMsgs)
  \/ \E k \in 1..Len(clients) : InboundHostMatchBuy(k)
  \/ \E k \in 1..Len(clients) : Inbound(k, HostMatchReadyMsgs)
  \/ \E t \in timers : SendTimer(t)
  \/ \E p \in Hosts : handleShopReady(p)
  \/ \E p \in Hosts : RunEffects(p)
  \/ \E p \in Hosts : AiReturn(p)
  \/ \E p \in Hosts : TurnTimeout(p)
  \/ \E p \in Hosts : roundTimerFires(p)

SpecHostMatch == Init /\ [][NextHostMatch]_vars

\* The three callers of the purchase validation side by side: the host's own
\* shop buttons, ACTION_BUY messages naming any player of the room, and the
\* purchase loop of startBattlePhase over the ids generateAiPurchases returns.
EntryBuyIds == {"a_knight", "w_moonlight"}
EntryBuyMsgs ==
  {Msg("ACTION_BUY", [playerId |-> i, itemId |-> x]) :
     i \in {"p1", "p2"}, x \in EntryBuyIds \cup {"no_such_item"}}
EntryAiSuggestions ==
  {<<>>, <<"a_havel", "w_claymore", "r_life">>,
   <<"no_such_item", "a_knight", "a_knight", "w_moonlight">>,
   <<"s_arrow", "s_arrow", "s_arrow", "w_moonlight">>}

InboundEntryBuy(k) ==
  /\ TotalItems(gameState[clients[k].env.peer].players) < MaxItems
  /\ Inbound(k, EntryBuyMsgs)

NextEntry ==
  \/ \E p \in Hosts : handleLogin(p)
  \/ \E p \in Hosts : handleCreateRoom(p, "PVE")
  \/ \E p \in Hosts : handleCreateRoom(p, "PVP")
  \/ \E k \in 1..Len(clients) : MqttConnect(k)
  \/ \E k \in 1..Len(clients) : Inbound(k, HostMatchJoinMsgs)
  \/ \E k \in 1..Len(clients) : InboundEntryBuy(k)
  \/ \E k \in 1..Len(clients) : Inbound(k, HostMatchReadyMsgs)
  \/ \E t \in timers : SendTimer(t)
  \/ \E p \in Hosts : UserBuy(p, EntryBuyIds)
  \/ \E p \in Hosts : handleShopReady(p)
  \/ \E p \in Hosts : RunEffects(p)
  \/ \E p \in Hosts : \E ids \in EntryAiSuggestions : aiPurchasesReturn(p, ids)

SpecEntry == Init /\ [][NextEntry]_vars

\* The battles of a host whose turn-pacing timer keeps firing, while
\* ACTION_BUY and ACTION_READY messages arrive at any time, in the shop and
\* during the battle.  Nothing but the buyer's souls and the category limits
\* bounds the purchases.  Turns are drawn without critical hits.
BattleBuyMsgs == {Msg("ACTION_BUY", [playerId |-> "p2", itemId |-> "r_life"])}

NextBattle ==
  \/ \E p \in Hosts : handleLogin(p)
  \/ \E p \in Hosts : handleCreateRoom(p, "PVP")
  \/ \E p \in Hosts : handleShopReady(p)
  \/ \E k \in 1..Len(clients) : MqttConnect(k)
  \/ \E k \in 1..Len(clients) : Inbound(k, HostMatchJoinMsgs)
  \/ \E k \in 1..Len(clients) : Inbound(k, BattleBuyMsgs)
  \/ \E k \in 1..Len(clients) : Inbound(k, HostMatchReadyMsgs)
  \/ \E t \in timers : SendTimer(t)
  \/ \E p \in Hosts : RunEffects(p)
  \/ \E p \in Hosts : TurnTimeout(p)
  \/ \E p \in Hosts : roundTimerFires(p)

\* The render that follows a state update runs, and a timer that is pending
\* fires; neither the user nor the senders of the messages are fair.
BattleFairness ==
  /\ WF_vars(\E p \in Hosts : RunEffects(p))
  /\ WF_vars(\E t \in timers : SendTimer(t))
  /\ WF_vars(\E p \in Hosts : TurnTimeout(p))
  /\ WF_vars(\E p \in Hosts : roundTimerFires(p))

SpecBattle == Init /\ [][NextBattle]_vars /\ BattleFairness

\* Matches against the AI opponent whose purchase-decision call resolves or
\* rejects: renders, timers and the settling of a pending call are not held
\* back forever, the user's clicks may stop at any time.
NextReady ==
  \/ \E p \in Hosts : handleLogin(p)
  \/ \E p \in Hosts : handleCreateRoom(p, "PVE")
  \/ \E p \in Hosts : UserBuy(p, MatchBuyIds)
  \/ \E p \in Hosts : handleShopReady(p)
  \/ \E p \in Hosts : RunEffects(p)
  \/ \E p \in Hosts : AiReturn(p)
  \/ \E p \in Hosts : aiPurchasesFail(p)
  \/ \E p \in Hosts : TurnTimeout(p)
  \/ \E p \in Hosts : roundTimerFires(p)

ReadyFairness ==
  /\ WF_vars(\E p \in Hosts : RunEffects(p))
  /\ WF_vars(\E p \in Hosts : AiReturn(p) \/ aiPurchasesFail(p))
  /\ WF_vars(\E p \in Hosts : TurnTimeout(p))
  /\ WF_vars(\E p \in Hosts : roundTimerFires(p))

SpecReady == Init /\ [][NextReady]_vars /\ ReadyFairness

\* One room, its host and two users who type its code: the three peers, their
\* connections to the first broker and the lossy transport between them.
RoomClients == {"p2", "p3"}

NextRoom ==
  \/ \E p \in Hosts \cup RoomClients : handleLogin(p)
  \/ \E p \in Hosts : handleCreateRoom(p, "PVP")
  \/ \E p \in RoomClients : handleJoinRoom(p)
  \/ \E k \in 1..Len(clients) : MqttConnect(k)
  \/ \E k \in 1..Len(clients) : JoinTimer(k)
  \/ \E t \in timers : SendTimer(t)
  \/ \E m \in net : Deliver(m)
  \/ \E m \in net : Lose(m)
  \/ \E p \in Hosts \cup RoomClients : RunEffects(p)
  \/ \E p \in Hosts : heartbeat(p)

SpecRoom == Init /\ [][NextRoom]_vars

\* One user who opens rooms, joins rooms and leaves them, and the connection
\* attempts, errors, timeouts and retries of the broker failover.
NextFailover ==
  \/ \E p \in Hosts : handleLogin(p)
  \/ \E p \in Hosts : handleCreateRoom(p, "PVP")
  \/ \E p \in Hosts : handleJoinRoom(p)
  \/ \E k \in 1..Len(clients) : MqttConnect(k)
  \/ \E k \in 1..Len(clients) : MqttError(k)
  \/ \E k \in 1..Len(clients) : ConnTimeout(k)
  \/ \E t \in timers : RetryTimer(t)
  \/ \E k \in 1..Len(clients) : JoinTimer(k)
  \/ \E p \in Hosts : rejoin(p)
  \/ \E p \in Hosts : RunEffects(p)
  \/ \E p \in Hosts : resetGame(p)

SpecFailover == Init /\ [][NextFailover]_vars

\* A host and one client over a transport that may drop any message.  Every
\* step of the program is weakly fair: a connection attempt completes, a
\* pending timer fires, a message that stays in flight is delivered, a render
\* runs.  Neither the users nor the drops are.
\* The heartbeat interval is long against a delivery: the network has drained
\* when it fires.
SlowHeartbeat(p) == net = {} /\ heartbeat(p)

\* The timers that publish JOIN through client object k: the 500 ms timer of
\* its 'connect' handler and the 2 s re-join interval of its peer.
JoinPublish(k) ==
  /\ ~clients[k].env.isHostRole
  /\ \/ JoinTimer(k)
     \/ mqttClientRef[clients[k].env.peer] = k /\ rejoin(clients[k].env.peer)

LossyUser ==
  \/ \E p \in Hosts \cup Joiners : handleLogin(p)
  \/ \E p \in Hosts : handleCreateRoom(p, "PVP")
  \/ \E p \in Joiners : handleJoinRoom(p)
LossyConnect == \E k \in 1..Len(clients) : MqttConnect(k)
LossyJoinPublish == \E k \in 1..Len(clients) : JoinPublish(k)
LossySendTimer == \E t \in timers : SendTimer(t)
LossyDeliver == \E m \in net : Deliver(m)
LossyRender == \E p \in Hosts \cup Joiners : RunEffects(p)
LossyHeartbeat == \E p \in Hosts : SlowHeartbeat(p)
LossyLose == \E m \in net : Lose(m)

NextLossless ==
  \/ LossyUser
  \/ LossyConnect
  \/ LossyJoinPublish
  \/ LossySendTimer
  \/ LossyDeliver
  \/ LossyRender
  \/ LossyHeartbeat

NextLossy == NextLossless \/ LossyLose

Fairness ==
  /\ WF_vars(LossyConnect)
  /\ WF_vars(LossyJoinPublish)
  /\ WF_vars(LossySendTimer)
  /\ WF_vars(LossyDeliver)
  /\ WF_vars(LossyRender)
  /\ WF_vars(LossyHeartbeat)

SpecLossy == Init /\ [][NextLossy]_vars /\ Fairness
\* The same without drops: here every join is acknowledged (JoinAcknowledged).
SpecLossless == Init /\ [][NextLossless]_vars /\ Fairness

\* A host and one client whose connection attempts may fail: the client's
\* attempts end with an error or run into their timeout, and the failover
\* opens the next one.  No message is lost.
RetryError(k) == ~clients[k].env.isHostRole /\ MqttError(k)

NextRetry ==
  \/ \E p \in Hosts \cup Joiners : handleLogin(p)
  \/ \E p \in Hosts : handleCreateRoom(p, "PVP")
  \/ \E p \in Joiners : handleJoinRoom(p)
  \/ \E k \in 1..Len(clients) : MqttConnect(k)
  \/ \E k \in 1..Len(clients) : RetryError(k)
  \/ \E k \in 1..Len(clients) : ConnTimeout(k)
  \/ \E t \in timers : RetryTimer(t)
  \/ \E k \in 1..Len(clients) : JoinPublish(k)
  \/ \E t \in timers : SendTimer(t)
  \/ \E m \in net : Deliver(m)
  \/ \E p \in Hosts \cup Joiners : RunEffects(p)
  \/ \E p \in Hosts : heartbeat(p)

SpecRetry == Init /\ [][NextRetry]_vars

\* ------------------------------------------------------------------ properties
NoDuplicateIds(players) ==
  \A i, j \in 1..Len(players) : i # j => players[i].id # players[j].id
Occurrences(players, id) == Cardinality(PlayerIndexes(players, id))

\* The step is the host p handling JOIN {id}
JoinStep(p, id) ==
  \E k \in 1..Len(clients) :
    /\ clients[k].env.peer = p
    /\ hostOnJoin(clients[k].env, Msg("JOIN", [id |-> id]), net)
IsJoinStep(p) ==
  lastOp' \in {Op("JOIN_EXISTING", p), Op("JOIN_FULL", p), Op("JOIN_NEW", p)}

\* C1: whatever JOINs the host handles, in whatever order with its other
\* transitions, no id occurs twice in its player list, and a JOIN for an id
\* already in the list leaves that id in the list exactly once.
C1_IdempotentJoin ==
  [][\A p \in Peers :
       /\ NoDuplicateIds(gameState'[p].players)
       /\ IsJoinStep(p) =>
            \A id \in JoinIds :
              (JoinStep(p, id) /\ hasPlayer(gameState[p].players, id))
                => Occurrences(gameState'[p].players, id) = 1]_vars

\* The host has just answered a repeated JOIN of p2 with its current state
C1_Witness ==
  /\ lastOp = Op("JOIN_EXISTING", "p1")
  /\ Len(gameState["p1"].players) = 2
  /\ gameState["p1"].players[1].id = "p1"
  /\ gameState["p1"].players[2].id = "p2"

\* C2: a client that receives a SYNC or WELCOME whose player list does not
\* hold the client's own id keeps its game state and its connected flag.
C2_StaleStateRejection ==
  [][\A m \in net :
       (/\ m.msg.type \in {"SYNC", "WELCOME"}
        /\ ~isHostRef[clients[m.to].env.peer]
        /\ myPlayerId[clients[m.to].env.peer] \notin PlayerIds(m.msg.payload.players)
        /\ Deliver(m))
         => /\ gameState'[clients[m.to].env.peer] = gameState[clients[m.to].env.peer]
            /\ isConnected'[clients[m.to].env.peer] = isConnected[clients[m.to].env.peer]]_vars

\* p2 shows the room of p1 and p3, connected, without being one of its players
C2_ForeignSession ==
  /\ isConnected["p2"]
  /\ gameState["p2"].phase = "SHOP"
  /\ PlayerIds(gameState["p2"].players) = {"p1", "p3"}

\* C3: after a client joins a room whose host is connected and waiting, and
\* provided the transport drops only finitely many messages, the client
\* eventually is connected and listed by the host.
JoinedWaitingRoom ==
  /\ lastOp = Op("handleJoinRoom", "p2")
  /\ isConnected["p1"]
  /\ ~renderPending["p1"]
  /\ gameState["p1"].phase = "WAITING_FOR_OPPONENT"
Accepted ==
  /\ isConnected["p2"]
  /\ hasPlayer(gameState["p1"].players, "p2")
FinitelyManyDrops == <>[][lastOp'.op # "lose"]_vars
C3_JoinLiveness == FinitelyManyDrops => (JoinedWaitingRoom ~> Accepted)

\* Without drops every join is acknowledged
JoinAcknowledged == JoinedWaitingRoom ~> Accepted

\* Host and client wait in the room, both connected to the same broker; the
\* client is not in the host's list, nothing is in flight and nothing is left
\* that would publish a JOIN
C3_Stuck ==
  /\ gameState["p1"].phase = "WAITING_FOR_OPPONENT"
  /\ isConnected["p1"]
  /\ ~renderPending["p1"]
  /\ mqttClientRef["p1"] # 0
  /\ clients[mqttClientRef["p1"]].state = "connected"
  /\ gameState["p2"].phase = "WAITING_FOR_OPPONENT"
  /\ ~renderPending["p2"]
  /\ mqttClientRef["p2"] # 0
  /\ clients[mqttClientRef["p2"]].state = "connected"
  /\ clients[mqttClientRef["p2"]].broker = clients[mqttClientRef["p1"]].broker
  /\ ~hasPlayer(gameState["p1"].players, "p2")
  /\ lastOp = Op("lose", "")
  /\ net = {}
  /\ \A t \in timers : t.kind = "connTimeout"
  /\ ~ENABLED LossyJoinPublish

\* C4: once the session is connected (and rendered so), an error event or a
\* connection timeout of any of its attempts ends no client, leaves the
\* broker index alone and opens no connection.
FailoverEvent(p) ==
  \E k \in 1..Len(clients) :
    /\ clients[k].env.peer = p
    /\ MqttError(k) \/ ConnTimeout(k)
C4_ConnectedLatch ==
  [][\A p \in Peers :
       (/\ isConnected[p]
        /\ ~renderPending[p]
        /\ gameState[p].roomCode # NULL
        /\ FailoverEvent(p))
         => /\ clients' = clients
            /\ brokerIndexRef'[p] = brokerIndexRef[p]
            /\ mqttClientRef'[p] = mqttClientRef[p]]_vars

\* In a session rendered as connected, the timeout of an earlier attempt has
\* ended the current client and opened another attempt on the next broker
C4_TimeoutFailover ==
  /\ lastOp = Op("connTimeout", "p1")
  /\ isConnected["p1"]
  /\ ~renderPending["p1"]
  /\ gameState["p1"].roomCode # NULL
  /\ Len(clients) = 3
  /\ clients[2].state = "ended"
  /\ clients[3].state = "connecting"
  /\ clients[3].broker = brokerIndexRef["p1"]
  /\ mqttClientRef["p1"] = 3
  /\ [kind |-> "connTimeout", client |-> 1] \notin timers
  /\ [kind |-> "connTimeout", client |-> 2] \in timers

\* C5: from the reset on, until the user opens or joins a room, nothing
\* changes the game state and nothing opens a connection.
LobbyState == [InitialGameState EXCEPT !.phase = "LOBBY"]
UserStep(p) ==
  handleCreateRoom(p, "PVE") \/ handleCreateRoom(p, "PVP") \/ handleJoinRoom(p)
OpensConnection(p) ==
  /\ Len(clients') > Len(clients)
  /\ clients'[Len(clients')].env.peer = p
C5_CleanReset ==
  [][\A p \in Peers :
       (gameState[p] = LobbyState /\ ~UserStep(p))
         => /\ gameState'[p] = LobbyState
            /\ ~OpensConnection(p)]_vars

\* Back in the lobby after a reset, with a connection open again
C5_OrphanConnection ==
  /\ gameState["p1"] = LobbyState
  /\ \E k \in 1..Len(clients) : clients[k].state = "connected"
\* The arguments processBuyItem is called with in the shop specification
ItemIds == ShopBuyIds \cup RemoteBuyIds
BuyerIds == Hosts \cup RemoteIds

\* The four conditions of a valid purchase
ValidPurchase(state, playerId, itemId) ==
  /\ hasPlayer(state.players, playerId)
  /\ hasItem(itemId)
  /\ findPlayer(state.players, playerId).souls >= findItem(itemId).cost
  /\ typeCount(findPlayer(state.players, playerId).inventory, findItem(itemId).type)
       < INVENTORY_LIMITS[findItem(itemId).type]

\* after is before with the one purchase applied and nothing else touched
PurchaseApplied(before, after, playerId, itemId) ==
  /\ Len(after.players) = Len(before.players)
  /\ \A i \in 1..Len(before.players) :
       LET b == before.players[i]
           a == after.players[i]
       IN IF b.id = playerId
          THEN /\ a.souls = b.souls - findItem(itemId).cost
               /\ a.inventory = Append(b.inventory, itemId)
               /\ \A f \in DOMAIN BASE_STATS :
                    a.currentStats[f] = BASE_STATS[f] + SumStat(a.inventory, f)
               /\ a.id = b.id /\ a.isAi = b.isAi /\ a.wins = b.wins /\ a.isReady = b.isReady
          ELSE a = b
  /\ [after EXCEPT !.players = before.players] = before

\* The step is processBuyItem(prev, playerId, itemId) run by peer p: through
\* the host's own buy action, or through the ACTION_BUY message handler.
HostBuyStep(p, playerId, itemId) ==
  /\ isHost[p]
  /\ playerId = myPlayerId[p]
  /\ handleBuyItemRequest(p, itemId)
ActionBuyStep(p, playerId, itemId) ==
  \E k \in 1..Len(clients) :
    /\ clients[k].env.peer = p
    /\ hostOnActionBuy(clients[k].env,
                       Msg("ACTION_BUY", [playerId |-> playerId, itemId |-> itemId]), net)
BuyStep(p, playerId, itemId) ==
  HostBuyStep(p, playerId, itemId) \/ ActionBuyStep(p, playerId, itemId)
IsBuyStep(p) == lastOp' \in {Op("hostBuy", p), Op("ACTION_BUY", p)}

\* C6: a purchase that satisfies all four validity conditions takes the
\* item's cost from the buyer's souls, appends the item once to the buyer's
\* inventory, recomputes the buyer's stats from the new inventory, and
\* changes nothing else of the game state.
C6_ValidPurchase ==
  [][\A p \in Peers :
       IsBuyStep(p) =>
         /\ \E playerId \in BuyerIds, itemId \in ItemIds : BuyStep(p, playerId, itemId)
         /\ \A playerId \in BuyerIds, itemId \in ItemIds :
              (BuyStep(p, playerId, itemId) /\ ValidPurchase(gameState[p], playerId, itemId))
                => PurchaseApplied(gameState[p], gameState'[p], playerId, itemId)]_vars

\* The ACTION_BUY handler has just applied p2's purchase of a long sword
C6_Witness ==
  /\ lastOp = Op("ACTION_BUY", "p1")
  /\ renderPending["p1"]
  /\ hasPlayer(gameState["p1"].players, "p2")
  /\ findPlayer(gameState["p1"].players, "p2").inventory = <<"w_longsword">>
  /\ findPlayer(gameState["p1"].players, "p2").souls = INITIAL_SOULS - 500
  /\ findPlayer(gameState["p1"].players, "p1").inventory = <<>>

C8_CategoryLimits ==
  \A p \in Peers :
    \A i \in 1..Len(gameState[p].players) :
      /\ typeCount(gameState[p].players[i].inventory, "WEAPON") <= 2
      /\ typeCount(gameState[p].players[i].inventory, "ARMOR") <= 1
      /\ typeCount(gameState[p].players[i].inventory, "ACCESSORY") <= 4
      /\ typeCount(gameState[p].players[i].inventory, "SPELL") <= 2

\* The AI was suggested three long swords and two armors and holds two and one
C8_Witness ==
  /\ gameState["p1"].phase = "BATTLE"
  /\ hasPlayer(gameState["p1"].players, AI_ID)
  /\ findPlayer(gameState["p1"].players, AI_ID).inventory
       = <<"w_longsword", "w_longsword", "a_knight">>
  /\ findPlayer(gameState["p1"].players, AI_ID).souls = INITIAL_SOULS - 1600

\* C9: at the end of a round the winner's souls grow by 2000 and every other
\* player's by 1000, and the winner's win count grows by one.
C9_RoundScoring ==
  [][\A p \in Peers :
       handleNextRound(p) =>
         /\ Len(gameState'[p].players) = Len(gameState[p].players)
         /\ \A i \in 1..Len(gameState[p].players) :
              LET b == gameState[p].players[i]
                  a == gameState'[p].players[i]
              IN IF b.id = gameState[p].roundWinnerId
                 THEN a.souls = b.souls + 2000 /\ a.wins = b.wins + 1
                 ELSE a.souls = b.souls + 1000 /\ a.wins = b.wins]_vars

\* Round 1 was just scored: the host won it without having bought anything
C9_Witness ==
  /\ lastOp = Op("handleNextRound", "p1")
  /\ gameState["p1"].round = 2
  /\ gameState["p1"].players[1].wins = 1
  /\ gameState["p1"].players[1].souls = INITIAL_SOULS + 2000
  /\ gameState["p1"].players[2].wins = 0

\* C10: when scoring a round brings a player to two wins, that same step ends
\* the match in GAME_OVER without incrementing round; otherwise, while round
\* is below the maximum, round grows by one and the next phase is SHOP.
WinsAfter(state, i) ==
  state.players[i].wins + (IF state.players[i].id = state.roundWinnerId THEN 1 ELSE 0)
C11_DuplicateJoinNoOp ==
  [][\A p \in Peers :
       IsJoinStep(p) =>
         \A id \in JoinIds :
           (JoinStep(p, id) /\ hasPlayer(gameState[p].players, id))
             => /\ gameState'[p] = gameState[p]
                /\ timers' = timers
                /\ net' = NetAdd(net, send(p, Msg("SYNC", gameState[p])))
                /\ lastOp' = Op("JOIN_EXISTING", p)]_vars

\* The same for a host whose last state update has been rendered
C11_RenderedDuplicateJoin ==
  [][\A p \in Peers :
       (IsJoinStep(p) /\ ~renderPending[p]) =>
         \A id \in JoinIds :
           (JoinStep(p, id) /\ hasPlayer(gameState[p].players, id))
             => /\ gameState'[p] = gameState[p]
                /\ timers' = timers
                /\ net' = NetAdd(net, send(p, Msg("SYNC", gameState[p])))
                /\ lastOp' = Op("JOIN_EXISTING", p)]_vars

\* The host state a successful JOIN {id} leads to from state
Joined(state, id) ==
  [state EXCEPT !.players = Append(@, createPlayer(id, FALSE)), !.phase = "SHOP"]

\* The step publishes msg for host p: at once, or through a deferred publish
PublishedBy(p, m, msg) ==
  \/ [kind |-> "send", peer |-> p, msg |-> msg] \in timers' \ timers
  \/ /\ send(p, msg) # {}
     /\ net' = NetAdd(net \ {m}, send(p, msg))

\* The step is the host handling the JOIN m with fewer than two players and
\* an id it does not list
NewJoinStep(m) ==
  /\ m.msg.type = "JOIN"
  /\ isHostRef[clients[m.to].env.peer]
  /\ Len(gameState[clients[m.to].env.peer].players) < 2
  /\ ~hasPlayer(gameState[clients[m.to].env.peer].players, m.msg.payload.id)
  /\ Deliver(m)

\* C12: a JOIN with a new id handled by a host with fewer than two players
\* appends one player with the initial souls, an empty inventory and the base
\* stats, sets the phase to SHOP, and publishes a WELCOME and a SYNC that
\* both carry the new state.
C12_SuccessfulJoin ==
  [][\A m \in net :
       (lastOp'.op = "JOIN_NEW" /\ NewJoinStep(m)) =>
         LET p == clients[m.to].env.peer
         IN /\ gameState'[p] = Joined(gameState[p], m.msg.payload.id)
            /\ PublishedBy(p, m, Msg("WELCOME", gameState'[p]))
            /\ PublishedBy(p, m, Msg("SYNC", gameState'[p]))]_vars

\* The part of it that is about the state and the WELCOME
C12_JoinAppends ==
  [][\A m \in net :
       (m.msg.type = "JOIN" /\ NewJoinStep(m)) =>
         LET p == clients[m.to].env.peer
             new == gameState'[p].players[Len(gameState'[p].players)]
         IN /\ lastOp' = Op("JOIN_NEW", p)
            /\ gameState'[p] = Joined(gameState[p], m.msg.payload.id)
            /\ new.souls = INITIAL_SOULS /\ new.inventory = <<>>
            /\ new.currentStats = BASE_STATS
            /\ PublishedBy(p, m, Msg("WELCOME", gameState'[p]))]_vars

\* The host has taken p2 in and only a WELCOME is on its way
C12_WelcomeOnly ==
  /\ lastOp = Op("JOIN_NEW", "p1")
  /\ PlayerIds(gameState["p1"].players) = {"p1", "p2"}
  /\ gameState["p1"].phase = "SHOP"
  /\ PendingSends = {[kind |-> "send", peer |-> "p1",
                      msg |-> Msg("WELCOME", gameState["p1"])]}
  /\ \A x \in net : x.msg.type # "SYNC"

\* Every player of the list is ready or AI-controlled
EveryoneReady(players) ==
  \A i \in 1..Len(players) : players[i].isReady = TRUE \/ players[i].isAi = TRUE

\* C13: the host leaves SHOP for BATTLE only through the start-of-battle
\* transition and only with two players who are all ready or AI-controlled;
\* the transition is begun only in SHOP with no other start in progress, and
\* its one state update ends the shop phase, so it runs once per shop phase.
C13_SingleShotBattleStart ==
  [][\A p \in Peers :
       /\ (isHost[p] /\ gameState[p].phase = "SHOP" /\ gameState'[p].phase = "BATTLE")
            => /\ lastOp' = Op("startBattle", p)
               /\ Len(gameState[p].players) = 2
               /\ EveryoneReady(gameState[p].players)
       /\ lastOp' = Op("startBattleAwait", p)
            => /\ aiCall[p] = <<>> /\ ~startingBattleRef[p]
               /\ gameState[p].phase = "SHOP"
               /\ Len(gameState[p].players) = 2
               /\ EveryoneReady(gameState[p].players)
               /\ startingBattleRef'[p]
       /\ lastOp' = Op("startBattle", p)
            => /\ gameState[p].phase = "SHOP"
               /\ gameState'[p].phase = "BATTLE"
               /\ aiCall'[p] = <<>> /\ ~startingBattleRef'[p]
       /\ (aiCall[p] # <<>> /\ lastOp'.peer = p /\ lastOp'.op # "startBattle")
            => /\ aiCall'[p] = aiCall[p]
               /\ gameState'[p].phase = "SHOP"]_vars

\* The battle against the AI has started, once: while startBattlePhase awaited
\* the AI's purchases a purchase changed the state and the readiness check
\* ran again (the state of that render is still in gameStateRef)
C13_Witness ==
  /\ lastOp = Op("startBattle", "p1")
  /\ gameState["p1"].phase = "BATTLE"
  /\ ~startingBattleRef["p1"]
  /\ aiCall["p1"] = <<>>
  /\ hasPlayer(gameState["p1"].players, AI_ID)
  /\ gameStateRef["p1"].phase = "SHOP"
  /\ EveryoneReady(gameStateRef["p1"].players)
  /\ findPlayer(gameStateRef["p1"].players, "p1").inventory = <<"r_life">>
  /\ findPlayer(gameState["p1"].players, "p1").inventory = <<>>

\* C14: in every state of the host the round winner is set exactly when the
\* phase is ROUND_RESULT.
C14_RoundWinnerIffRoundResult ==
  \A p \in Peers :
    isHost[p] => (gameState[p].roundWinnerId # NULL <=> gameState[p].phase = "ROUND_RESULT")

\* The match is over and the winner of its last round is still set
C14_StaleRoundWinner ==
  /\ isHost["p1"]
  /\ lastOp = Op("handleNextRound", "p1")
  /\ gameState["p1"].phase = "GAME_OVER"
  /\ gameState["p1"].roundWinnerId # NULL

\* The same up to the end of the match: only GAME_OVER keeps a round winner
C14_UntilGameOver ==
  \A p \in Peers :
    (isHost[p] /\ gameState[p].phase # "GAME_OVER")
      => (gameState[p].roundWinnerId # NULL <=> gameState[p].phase = "ROUND_RESULT")

\* C15: in every state of the host the match winner is set exactly when the
\* phase is GAME_OVER, and then it is the id of one of the two players.
C15_MatchWinnerIffGameOver ==
  \A p \in Peers :
    isHost[p] =>
      /\ gameState[p].gameWinnerId # NULL <=> gameState[p].phase = "GAME_OVER"
      /\ gameState[p].gameWinnerId # NULL
           => /\ Len(gameState[p].players) = 2
              /\ gameState[p].gameWinnerId \in PlayerIds(gameState[p].players)

\* The AI has won the match
C15_Witness ==
  /\ isHost["p1"]
  /\ gameState["p1"].phase = "GAME_OVER"
  /\ gameState["p1"].gameWinnerId = AI_ID
  /\ findPlayer(gameState["p1"].players, AI_ID).wins = 2

\* Host h is in a room, rendered, with a connected transport that has a
\* listener, and its phase is not LOGIN
HeartbeatDue(h) ==
  /\ isHost[h] /\ ~renderPending[h]
  /\ gameState[h].roomCode # NULL
  /\ gameState[h].phase # "LOGIN"
  /\ mqttClientRef[h] # 0
  /\ clients[mqttClientRef[h]].state = "connected"
  /\ Subscribers(clients[mqttClientRef[h]].broker,
                 [code |-> gameState[h].roomCode, side |-> "client"]) # {}

\* The step delivers, to a client that host h lists, a SYNC of h's state
HealingDelivery(h, m) ==
  /\ lastOp'.op \in {"accept", "reject", "ignored"}
  /\ isHost[h]
  /\ m.msg = Msg("SYNC", gameState[h])
  /\ ~isHostRef[clients[m.to].env.peer]
  /\ myPlayerId[clients[m.to].env.peer] \in PlayerIds(gameState[h].players)
  /\ Deliver(m)

\* C16: a host in a room with a connected transport can always tick, whether
\* or not its state changed since the last tick; a tick publishes SYNCs of
\* the host's current state and nothing else; and when such a SYNC reaches a
\* client the host lists while the host's state is still the same, the
\* client's state becomes the host's.
C16_HeartbeatSelfHealing ==
  /\ [](\A h \in Peers : HeartbeatDue(h) => ENABLED heartbeat(h))
  /\ [][\A h \in Peers :
          /\ lastOp' = Op("heartbeat", h)
               => /\ \A x \in net' \ net : x.msg = Msg("SYNC", gameStateRef[h])
                  /\ ~renderPending[h] => gameStateRef[h] = gameState[h]
                  /\ gameState' = gameState
          /\ \A m \in net :
               HealingDelivery(h, m)
                 => /\ lastOp' = Op("accept", clients[m.to].env.peer)
                    /\ gameState'[clients[m.to].env.peer] = gameState'[h]]_vars

\* The WELCOME for p2 is still in flight, and p2, who was waiting, has caught
\* up with the host through a heartbeat SYNC
C16_Witness ==
  /\ lastOp = Op("accept", "p2")
  /\ gameState["p2"] = gameState["p1"]
  /\ gameState["p1"].phase = "SHOP"
  /\ PlayerIds(gameState["p1"].players) = {"p1", "p2"}
  /\ \E m \in net : m.msg.type = "WELCOME" /\ clients[m.to].env.peer = "p2"

\* Peer c acts as a client: neither its rendered role nor the role its
\* message handler reads is host
ClientRole(c) == ~isHost[c] /\ ~isHostRef[c]

\* The transitions of the host: message intents, purchase validation, battle
\* start, turn execution, round scoring, heartbeat
HostOnlyOps ==
  {"JOIN_NEW", "JOIN_EXISTING", "JOIN_FULL", "ACTION_BUY", "ACTION_READY", "hostBuy",
   "startBattle", "startBattleAwait", "executeTurn", "handleNextRound", "heartbeat"}

\* What the user of the peer does to its session
SessionOps == {"handleLogin", "handleCreateRoom", "handleJoinRoom", "resetGame"}

\* C17: a client runs none of the host's transitions; its game state changes
\* only when its user opens, joins or leaves a session, when it marks its own
\* player ready, and when it accepts a SYNC or WELCOME, and then the whole
\* state becomes exactly the payload.
C17_SingleWriterMirror ==
  [][\A c \in Peers :
       ClientRole(c) =>
         /\ lastOp'.peer = c => lastOp'.op \notin HostOnlyOps
         /\ lastOp' = Op("accept", c)
              => \E m \in net :
                   /\ clients[m.to].env.peer = c
                   /\ m.msg.type \in {"SYNC", "WELCOME"}
                   /\ net' = net \ {m}
                   /\ gameState'[c] = m.msg.payload
         /\ gameState'[c] # gameState[c]
              => \/ lastOp' = Op("accept", c)
                 \/ /\ lastOp' = Op("handleShopReady", c)
                    /\ gameState'[c] =
                         [gameState[c] EXCEPT
                            !.players = MapPlayer(gameState[c].players, myPlayerId[c], Ready)]
                 \/ lastOp'.peer = c /\ lastOp'.op \in SessionOps]_vars

\* The client marked itself ready, its ACTION_READY is still on its way, and
\* it has accepted a state in which it is not ready
C17_Witness ==
  /\ lastOp = Op("accept", "p2")
  /\ ~isHost["p2"]
  /\ gameState["p2"].phase = "SHOP"
  /\ hasPlayer(gameState["p2"].players, "p2")
  /\ ~findPlayer(gameState["p2"].players, "p2").isReady
  /\ \E m \in net : m.msg = Msg("ACTION_READY", [playerId |-> "p2"])

\* The slot of the player attacked in the next turn of state
DefenderSlot(state) == IF state.currentTurnIndex = 0 THEN 2 ELSE 1

\* C18: every executed turn takes at least 1 hit point from the defender,
\* whatever the attacker's inventory and stats, the defender's defense, the
\* critical-hit draw and the low-health multiplier.
C18_MinimumDamage ==
  [][\A p \in Peers :
       lastOp' = Op("executeTurn", p)
         => LET d == DefenderSlot(gameState[p])
            IN gameState'[p].players[d].currentStats.hp
                 <= gameState[p].players[d].currentStats.hp - 1]_vars

\* A critical hit of a low-health red tearstone holder whose raw damage is
\* below the defender's defense: 1 damage is dealt
C18_Witness ==
  LET state == gameState["p1"]
      attacker == state.players[DefenderSlot(state)]
      defender == state.players[state.currentTurnIndex + 1]
  IN /\ lastOp = Op("executeTurn", "p1")
     /\ state.phase = "BATTLE"
     /\ state.logs # <<>>
     /\ state.logs[Len(state.logs)].damage = 1
     /\ state.logs[Len(state.logs)].isCrit
     /\ hasRTSR(attacker) /\ lowHp(attacker)
     /\ rawDmg(attacker, 0) < 20 * defender.currentStats.def

\* C19: host transitions are serialized, each computed from the state left
\* by the previous one: a JOIN that takes a player in appends it to the
\* host's current state, and the start of the battle is computed from the
\* host's current state, so no transition applied before is overwritten.
C19_SerializedTransitions ==
  [][\A p \in Peers :
       /\ lastOp' = Op("JOIN_NEW", p)
            => \E id \in Peers : gameState'[p] = Joined(gameState[p], id)
       /\ lastOp' = Op("startBattle", p)
            => \E ids \in AiSuggestions \cup ShopAiSuggestions :
                 gameState'[p] = battleStartState(gameState[p], ids)]_vars

\* The host took p2 in and, before rendering, took p3 in from the snapshot
\* that lists neither: p2 is gone from the host's state although a WELCOME
\* naming p2 is due
C19_OverwrittenJoin ==
  /\ lastOp = Op("JOIN_NEW", "p1")
  /\ PlayerIds(gameStateRef["p1"].players) = {"p1"}
  /\ PlayerIds(gameState["p1"].players) = {"p1", "p3"}
  /\ \E t \in PendingSends :
       /\ t.msg.type = "WELCOME"
       /\ PlayerIds(t.msg.payload.players) = {"p1", "p2"}

\* C20: after a turn, if the defender's hit points are at most 0 the phase
\* becomes ROUND_RESULT, the round winner is the attacker, a SYSTEM death
\* entry follows the attack entry and the turn index is unchanged; otherwise
\* the phase stays BATTLE, one entry is appended and the turn passes to the
\* defender's slot.  Either way only the defender's hit points change among
\* the players' fields.
C20_DeathCheckAndAlternation ==
  [][\A p \in Peers :
       lastOp' = Op("executeTurn", p)
         => LET prev == gameState[p]
                next == gameState'[p]
                a == prev.currentTurnIndex + 1
                d == DefenderSlot(prev)
                n == Len(prev.logs)
                hp == next.players[d].currentStats.hp
            IN /\ Len(next.players) = 2
               /\ next.players[a] = prev.players[a]
               /\ next.players[d] = [prev.players[d] EXCEPT !.currentStats.hp = hp]
               /\ SubSeq(next.logs, 1, n) = prev.logs
               /\ next.logs[n + 1].attacker = prev.players[a].id
               /\ next.logs[n + 1].target = prev.players[d].id
               /\ next.logs[n + 1].damage = prev.players[d].currentStats.hp - hp
               /\ IF hp <= 0
                  THEN /\ next.phase = "ROUND_RESULT"
                       /\ next.roundWinnerId = prev.players[a].id
                       /\ Len(next.logs) = n + 2
                       /\ next.logs[n + 2].attacker = "SYSTEM"
                       /\ next.logs[n + 2].damage = 0
                       /\ next.currentTurnIndex = prev.currentTurnIndex
                  ELSE /\ next.phase = "BATTLE"
                       /\ next.roundWinnerId = prev.roundWinnerId
                       /\ Len(next.logs) = n + 1
                       /\ next.currentTurnIndex = d - 1]_vars

\* A battle in which the turn passed back and forth and whose last turn
\* killed the defender
C20_Witness ==
  LET state == gameState["p1"]
      n == Len(state.logs)
  IN /\ lastOp = Op("executeTurn", "p1")
     /\ state.phase = "ROUND_RESULT"
     /\ n >= 4
     /\ state.logs[n].attacker = "SYSTEM"
     /\ state.logs[n - 1].attacker = state.players[state.currentTurnIndex + 1].id
     /\ state.logs[n - 2].attacker = state.players[DefenderSlot(state)].id
     /\ state.players[DefenderSlot(state)].currentStats.hp <= 0
     /\ state.roundWinnerId = state.players[state.currentTurnIndex + 1].id

\* The win counters of the players, in slot order
WinsOf(players) == [i \in 1..Len(players) |-> players[i].wins]

\* C21: once the host's phase is GAME_OVER, the phase, the match winner, the
\* round counter and the win counters are unchanged by every step but the
\* reset, and the reset yields phase LOBBY with no players, round 1, an
\* empty log and no winners.
C21_GameOverTerminal ==
  [][\A p \in Peers :
       (isHost[p] /\ gameState[p].phase = "GAME_OVER") =>
         IF lastOp' = Op("resetGame", p) /\ gameState'[p] # gameState[p]
         THEN /\ gameState'[p].phase = "LOBBY"
              /\ gameState'[p].players = <<>>
              /\ gameState'[p].round = 1
              /\ gameState'[p].logs = <<>>
              /\ gameState'[p].roundWinnerId = NULL
              /\ gameState'[p].gameWinnerId = NULL
         ELSE /\ gameState'[p].phase = "GAME_OVER"
              /\ gameState'[p].gameWinnerId = gameState[p].gameWinnerId
              /\ gameState'[p].round = gameState[p].round
              /\ WinsOf(gameState'[p].players) = WinsOf(gameState[p].players)]_vars

\* An ACTION_BUY was handled by a host whose rendered phase is GAME_OVER: the
\* purchase was applied and the match stays over
C21_Witness ==
  /\ lastOp = Op("ACTION_BUY", "p1")
  /\ gameStateRef["p1"].phase = "GAME_OVER"
  /\ gameState["p1"].phase = "GAME_OVER"
  /\ hasPlayer(gameState["p1"].players, "p2")
  /\ Len(findPlayer(gameState["p1"].players, "p2").inventory)
       > Len(findPlayer(gameStateRef["p1"].players, "p2").inventory)

\* The phase changes of a host, other than the reset
PhaseEdges ==
  {<<"LOGIN", "LOBBY">>, <<"LOBBY", "WAITING_FOR_OPPONENT">>, <<"LOBBY", "SHOP">>,
   <<"WAITING_FOR_OPPONENT", "SHOP">>, <<"SHOP", "BATTLE">>, <<"BATTLE", "ROUND_RESULT">>,
   <<"ROUND_RESULT", "SHOP">>, <<"ROUND_RESULT", "GAME_OVER">>}

\* C22: every change of the phase of a peer that hosts is an edge of the
\* phase graph or a reset to LOBBY; a room against the AI opens in SHOP with
\* both players, and a PVP room reaches SHOP when the second player joined.
C22_PhaseGraph ==
  [][\A p \in Hosts :
       gameState'[p].phase # gameState[p].phase =>
         \/ /\ lastOp' = Op("resetGame", p)
            /\ gameState'[p].phase = "LOBBY"
         \/ /\ <<gameState[p].phase, gameState'[p].phase>> \in PhaseEdges
            /\ gameState'[p].phase = "WAITING_FOR_OPPONENT" => Len(gameState'[p].players) = 1
            /\ gameState'[p].phase = "SHOP" => Len(gameState'[p].players) = 2]_vars

\* A match in a PVP room has gone through every phase up to GAME_OVER, the
\* deciding round included
C22_Witness ==
  /\ lastOp = Op("handleNextRound", "p1")
  /\ gameState["p1"].phase = "GAME_OVER"
  /\ gameStateRef["p1"].phase = "ROUND_RESULT"
  /\ PlayerIds(gameState["p1"].players) = {"p1", "p2"}
  /\ gameState["p1"].round = MAX_ROUNDS

\* The phases of a match under way
MatchPhases == {"SHOP", "BATTLE", "ROUND_RESULT", "GAME_OVER"}

\* C23: in every state of the host and of the client the player list has at
\* most two entries; in SHOP, BATTLE, ROUND_RESULT and GAME_OVER it has
\* exactly two, and the current-turn index is 0 or 1, the slot of one of them.
C23_PlayerSlots ==
  \A p \in Peers :
    /\ Len(gameState[p].players) <= 2
    /\ gameState[p].phase \in MatchPhases
         => /\ Len(gameState[p].players) = 2
            /\ gameState[p].currentTurnIndex \in {0, 1}
            /\ gameState[p].currentTurnIndex + 1 \in DOMAIN gameState[p].players

\* The client mirrors a battle in which the turn is with the second slot
C23_Witness ==
  /\ lastOp = Op("accept", "p2")
  /\ ~isHost["p2"]
  /\ gameState["p2"].phase = "BATTLE"
  /\ Len(gameState["p2"].players) = 2
  /\ gameState["p2"].currentTurnIndex = 1
  /\ gameState["p1"].currentTurnIndex = 1

\* C24: the turn timer changes the state only when the host's phase is BATTLE
\* at the moment it fires, and the round-result timer only when it is
\* ROUND_RESULT with a round winner; no timer set in an earlier phase acts
\* on the state of a later one.
C24_StaleTimersGuarded ==
  [][\A p \in Peers :
       /\ lastOp' = Op("executeTurn", p)
            => /\ isHost[p]
               /\ gameState[p].phase = "BATTLE"
       /\ lastOp' = Op("handleNextRound", p)
            => /\ isHost[p]
               /\ gameState[p].phase = "ROUND_RESULT"
               /\ gameState[p].roundWinnerId # NULL]_vars

\* The turn timer fired while an ACTION_READY handled after the last render
\* still awaited its render: the turn was computed from the current state
C24_Witness ==
  /\ lastOp = Op("executeTurn", "p1")
  /\ gameStateRef["p1"].phase = "BATTLE"
  /\ Len(gameState["p1"].logs) > Len(gameStateRef["p1"].logs)
  /\ hasPlayer(gameState["p1"].players, "p2")
  /\ findPlayer(gameState["p1"].players, "p2").isReady
  /\ ~findPlayer(gameStateRef["p1"].players, "p2").isReady

\* The step is a failover step of peer p started by client object k: its
\* error event or its connection timeout has advanced the broker index
FailoverStep(k) ==
  /\ MqttError(k) \/ ConnTimeout(k)
  /\ brokerIndexRef'[clients[k].env.peer] # brokerIndexRef[clients[k].env.peer]

\* C25: a failover step is caused only by the failure of the current
\* attempt, once; it ends the current client, moves the broker index to the
\* next broker and connects to it, or after the last broker wraps the index
\* to the first and leaves the next attempt to the retry pause, which
\* connects to the first broker.  The broker index is always valid.
C25_FailoverOrder ==
  [][/\ \A k \in 1..Len(clients) :
          FailoverStep(k) =>
            LET p == clients[k].env.peer
            IN /\ mqttClientRef[p] = k
               /\ clients[k].state # "ended"
               /\ clients'[k].state = "ended"
               /\ brokerIndexRef'[p] = (brokerIndexRef[p] + 1) % Len(BROKERS)
               /\ IF brokerIndexRef[p] + 1 < Len(BROKERS)
                  THEN /\ Len(clients') = Len(clients) + 1
                       /\ clients'[Len(clients')].broker = brokerIndexRef[p] + 1
                       /\ clients'[Len(clients')].state = "connecting"
                  ELSE /\ Len(clients') = Len(clients)
                       /\ \E t \in timers' \ timers : t.kind = "retry"
     /\ \A t \in timers :
          (t.kind = "retry" /\ RetryTimer(t)) =>
            /\ Len(clients') = Len(clients) + 1
            /\ clients'[Len(clients')].broker = 0
     /\ \A p \in Peers : brokerIndexRef'[p] \in 0..(Len(BROKERS) - 1)]_vars

\* The first attempt of a host failed with an error and the failover opened
\* the second; then the timeout of the first fired too: the second attempt
\* was ended before it failed and the third broker is being tried
C25_DoubleFailover ==
  /\ lastOp = Op("connTimeout", "p1")
  /\ isHost["p1"] /\ ~isConnected["p1"]
  /\ gameState["p1"].phase = "WAITING_FOR_OPPONENT"
  /\ Len(clients) = 3
  /\ clients[1].state = "ended" /\ clients[2].state = "ended"
  /\ clients[3].state = "connecting" /\ clients[3].broker = 2
  /\ [kind |-> "connTimeout", client |-> 1] \notin timers
  /\ [kind |-> "connTimeout", client |-> 2] \in timers
  /\ [kind |-> "connTimeout", client |-> 3] \in timers

\* The client p has accepted a state that lists its own id and marked itself
\* connected
JoinSucceeded(p) ==
  /\ ~isHost[p]
  /\ isConnected[p]
  /\ hasPlayer(gameState[p].players, myPlayerId[p])

\* C26: once a client has accepted a WELCOME or SYNC that lists its own id
\* and marked itself connected, none of its connected client objects
\* publishes a JOIN.
C26_JoinRetryStops ==
  [][\A k \in 1..Len(clients) :
       (/\ JoinSucceeded(clients[k].env.peer)
        /\ clients[k].state = "connected")
         => ~JoinPublish(k)]_vars

\* The client was taken in and has rendered the shop; a failover then ended
\* its connection and opened another, which has published a JOIN although
\* the client's state lists it
C26_JoinAfterSuccess ==
  /\ lastOp = Op("publishJoin", "p2")
  /\ JoinSucceeded("p2")
  /\ ~renderPending["p2"]
  /\ gameState["p2"].phase = "SHOP"
  /\ mqttClientRef["p2"] # 0
  /\ clients[mqttClientRef["p2"]].state = "connected"
  /\ \E k \in 1..Len(clients) :
       /\ clients[k].env.peer = "p2" /\ clients[k].state = "ended"
  /\ [kind |-> "join", client |-> mqttClientRef["p2"]] \notin timers

\* Every player of the state has the hit points recomputed from its inventory
Healed(state) ==
  \A i \in 1..Len(state.players) :
    state.players[i].currentStats.hp = calculateStats(state.players[i]).hp

\* C27: no player ever has more hit points than the maximum recomputed from
\* its inventory (base 100 plus the bonuses of its items); the state that
\* round scoring produces and the first state of every BATTLE phase of the
\* host have every player at that maximum.
C27_HealingAtRoundStart ==
  /\ [](\A p \in Peers : \A i \in 1..Len(gameState[p].players) :
          gameState[p].players[i].currentStats.hp
            <= 100 + SumStat(gameState[p].players[i].inventory, "hp"))
  /\ [][\A p \in Peers :
          /\ lastOp' = Op("handleNextRound", p) => Healed(gameState'[p])
          /\ (isHost[p] /\ gameState[p].phase # "BATTLE" /\ gameState'[p].phase = "BATTLE")
               => Healed(gameState'[p])]_vars

\* Round scoring has healed a wounded player whose armour raises its maximum
C27_Witness ==
  /\ lastOp = Op("handleNextRound", "p1")
  /\ gameState["p1"].phase = "SHOP"
  /\ \E i \in 1..2 :
       /\ gameState["p1"].players[i].currentStats.hp > 100
       /\ gameState["p1"].players[i].currentStats.hp
            = calculateStats(gameState["p1"].players[i]).hp
       /\ gameStateRef["p1"].players[i].currentStats.hp
            < gameState["p1"].players[i].currentStats.hp

\* The sequence a is a prefix of the sequence b
IsPrefix(a, b) == Len(a) <= Len(b) /\ SubSeq(b, 1, Len(a)) = a

\* The entries of the log are numbered 1, 2, 3, ... in order
NumberedInOrder(logs) == \A i \in 1..Len(logs) : logs[i].turn = i

\* C28: every transition of a host other than the reset leaves the entries of
\* the log in place, the log before it being a prefix of the log after it,
\* and the turn numbers of the entries are 1, 2, 3, ... in order.
C28_AppendOnlyLog ==
  /\ [](\A p \in Peers : NumberedInOrder(gameState[p].logs))
  /\ [][\A p \in Peers :
          (isHost[p] /\ lastOp' # Op("resetGame", p))
            => IsPrefix(gameState[p].logs, gameState'[p].logs)]_vars

\* The log is append-only within a round: the start of a battle and the
\* move to the next round replace it by the empty log, every other
\* transition of a host but the reset keeps the log before it as a prefix of
\* the log after it, and the entries are numbered 1, 2, 3, ... in order.
C28_AppendOnlyWithinRound ==
  /\ [](\A p \in Peers : NumberedInOrder(gameState[p].logs))
  /\ [][\A p \in Peers :
          (isHost[p] /\ lastOp' # Op("resetGame", p))
            => IF \/ lastOp' = Op("startBattle", p)
                  \/ /\ lastOp' = Op("handleNextRound", p)
                     /\ gameState'[p].phase = "SHOP"
               THEN gameState'[p].logs = <<>>
               ELSE IsPrefix(gameState[p].logs, gameState'[p].logs)]_vars

\* The log of the first round was dropped by the move to the second round,
\* and a turn of the second round has been appended to the new log
C28_Witness ==
  /\ lastOp = Op("executeTurn", "p1")
  /\ gameState["p1"].round = 2
  /\ Len(gameState["p1"].logs) >= 2
  /\ Len(gameStateRef["p1"].logs) = Len(gameState["p1"].logs) - 1
  /\ IsPrefix(gameStateRef["p1"].logs, gameState["p1"].logs)


\* The stats that only purchases change
DerivedFields == {"str", "dex", "int", "def", "poise"}

\* C29: in every reachable state, on every peer, each player's strength,
\* dexterity, intelligence, defense and poise equal the base value plus the
\* sum of that stat's bonuses over the player's inventory, and the player's
\* hit points are at most the base value plus the hit-point bonuses.
C29_DerivedStats ==
  \A p \in Peers : \A i \in 1..Len(gameState[p].players) :
    LET pl == gameState[p].players[i]
    IN /\ \A f \in DerivedFields :
            pl.currentStats[f] = BASE_STATS[f] + SumStat(pl.inventory, f)
       /\ pl.currentStats.hp <= BASE_STATS.hp + SumStat(pl.inventory, "hp")

\* A battle in which a player who bought stat-bearing items has been wounded
C29_Witness ==
  /\ gameState["p1"].phase = "BATTLE"
  /\ lastOp = Op("executeTurn", "p1")
  /\ \E i \in 1..2 :
       LET pl == gameState["p1"].players[i]
       IN /\ Len(pl.inventory) >= 2
          /\ pl.currentStats.poise > BASE_STATS.poise
          /\ pl.currentStats.def > BASE_STATS.def
          /\ pl.currentStats.hp < BASE_STATS.hp + SumStat(pl.inventory, "hp")


\* processBuyItem applied for one player to each id of the list in turn
RECURSIVE BuyAll(_, _, _)
BuyAll(state, playerId, ids) ==
  IF ids = <<>> THEN state
  ELSE BuyAll(processBuyItem(state, playerId, Head(ids)), playerId, Tail(ids))

\* The state with nobody ready, in BATTLE, with an empty log
BattleOf(state) ==
  [state EXCEPT !.players = [i \in 1..Len(state.players) |->
                               [state.players[i] EXCEPT !.isReady = FALSE]],
                !.phase = "BATTLE",
                !.logs = <<>>]

\* C30: the host's own buy action and the ACTION_BUY handler both produce the
\* state processBuyItem gives for the state, player and item at hand, so the
\* same state for the same three; and the battle start of a room with an AI
\* player produces the state that processBuyItem gives when applied for the
\* AI player to the suggested ids one after the other (same souls, inventory
\* and stats, unknown ids leaving the state as it is).
C30_OneValidation ==
  [][\A p \in Peers :
       /\ \A playerId \in BuyerIds, itemId \in ItemIds \cup EntryBuyIds \cup MatchBuyIds :
            BuyStep(p, playerId, itemId)
              => gameState'[p] = processBuyItem(gameState[p], playerId, itemId)
       /\ \A ids \in EntryAiSuggestions \cup ShopAiSuggestions \cup AiSuggestions :
            (aiPurchasesReturn(p, ids) /\ hasPlayer(aiCall[p][1].players, AI_ID))
              => gameState'[p] = BattleOf(BuyAll(aiCall[p][1], AI_ID, ids))]_vars

\* The battle has started with an AI player that bought the armour and then
\* the sword that cost exactly the souls it had left, and was refused the ring
C30_Witness ==
  /\ lastOp = Op("startBattle", "p1")
  /\ gameState["p1"].phase = "BATTLE"
  /\ hasPlayer(gameState["p1"].players, AI_ID)
  /\ findPlayer(gameState["p1"].players, AI_ID).inventory = <<"a_havel", "w_claymore">>
  /\ findPlayer(gameState["p1"].players, AI_ID).souls = 0
  /\ findPlayer(gameState["p1"].players, "p1").inventory = <<"a_knight">>


\* Nobody of the state is ready
NobodyReady(state) == \A i \in 1..Len(state.players) : ~state.players[i].isReady

\* C31: the state in which a host enters BATTLE and the SYNC published for it
\* have every ready flag false, and every host state whose phase is not SHOP
\* has every ready flag false.
C31_ReadyFlagsTransient ==
  /\ [](\A p \in Peers :
          (isHost[p] /\ gameState[p].phase # "SHOP") => NobodyReady(gameState[p]))
  /\ [][\A p \in Peers :
          (isHost[p] /\ gameState[p].phase # "BATTLE" /\ gameState'[p].phase = "BATTLE")
            => /\ NobodyReady(gameState'[p])
               /\ \A m \in net' \ net :
                    (m.msg.type = "SYNC" /\ m.msg.payload.phase = "BATTLE")
                      => NobodyReady(m.msg.payload)]_vars

\* A host in BATTLE holds a player whose ready flag is set: an ACTION_READY
\* was handled after the battle had started
C31_ReadyInBattle ==
  /\ isHost["p1"]
  /\ gameState["p1"].phase = "BATTLE"
  /\ lastOp = Op("ACTION_READY", "p1")
  /\ ~NobodyReady(gameState["p1"])


\* The player of a two-player list with the higher win count, the one in the
\* first slot when the counts are equal
HigherWins(players) ==
  IF players[1].wins >= players[2].wins THEN players[1].id ELSE players[2].id

\* C32: whenever a match has ended, on the host and on a client that mirrors
\* it, the declared match winner is the player with the higher win count, the
\* player of the first slot if the counts are equal.
C32_MatchWinnerRule ==
  \A p \in Peers :
    gameState[p].phase = "GAME_OVER"
      => /\ Len(gameState[p].players) = 2
         /\ gameState[p].gameWinnerId = HigherWins(gameState[p].players)

\* Round scoring has just ended a match that the player of the second slot won
C32_Witness ==
  /\ lastOp = Op("handleNextRound", "p1")
  /\ gameState["p1"].phase = "GAME_OVER"
  /\ gameState["p1"].players[2].wins > gameState["p1"].players[1].wins
  /\ gameState["p1"].gameWinnerId = gameState["p1"].players[2].id


\* C33: in every reachable state, on every peer, every player's souls are at
\* least 0.
C33_SoulsNeverNegative ==
  \A p \in Peers : \A i \in 1..Len(gameState[p].players) :
    gameState[p].players[i].souls >= 0

\* A player has spent its last soul: the AI bought items for exactly what it had
C33_Witness ==
  /\ gameState["p1"].phase = "BATTLE"
  /\ \E i \in 1..Len(gameState["p1"].players) :
       /\ gameState["p1"].players[i].souls = 0
       /\ Len(gameState["p1"].players[i].inventory) >= 2


\* C34: with the turn-pacing timer firing whenever it is pending, a host that
\* is in BATTLE eventually is in ROUND_RESULT, also when ACTION_BUY and
\* ACTION_READY messages keep arriving during the battle.
C34_EveryBattleEnds ==
  \A p \in Peers :
    (isHost[p] /\ gameState[p].phase = "BATTLE") ~> (gameState[p].phase = "ROUND_RESULT")

\* A battle has ended with the killing blow of a player who is at full hit
\* points although it was hit before: an ACTION_BUY healed it during the battle
C34_Witness ==
  /\ lastOp = Op("executeTurn", "p1")
  /\ gameState["p1"].phase = "ROUND_RESULT"
  /\ gameState["p1"].round = 1
  /\ gameState["p1"].roundWinnerId = "p2"
  /\ findPlayer(gameState["p1"].players, "p2").currentStats.hp
       = calculateStats(findPlayer(gameState["p1"].players, "p2")).hp


\* The rounds scored so far: all rounds before the current one, and the
\* current one too once the match is over
ScoredRounds(state) == IF state.phase = "GAME_OVER" THEN state.round ELSE state.round - 1

\* C35: in every reachable host state the round counter is between 1 and
\* maxRounds (3), the win counters add up to the number of scored rounds, no
\* win counter exceeds 2, and at GAME_OVER the match winner has exactly 2 wins
\* and the opponent fewer.
C35_BoundedMatch ==
  \A p \in Peers :
    isHost[p] =>
      LET state == gameState[p]
      IN /\ state.round \in 1..MAX_ROUNDS
         /\ state.maxRounds = 3
         /\ TotalWins(state.players) = ScoredRounds(state)
         /\ \A i \in 1..Len(state.players) : state.players[i].wins <= 2
         /\ state.phase = "GAME_OVER" =>
              \E i \in 1..Len(state.players) :
                /\ state.players[i].id = state.gameWinnerId
                /\ state.players[i].wins = 2
                /\ \A j \in 1..Len(state.players) : j # i => state.players[j].wins < 2

\* A match that went the full three rounds has ended 2 to 1
C35_Witness ==
  /\ isHost["p1"]
  /\ lastOp = Op("handleNextRound", "p1")
  /\ gameState["p1"].phase = "GAME_OVER"
  /\ gameState["p1"].round = MAX_ROUNDS
  /\ TotalWins(gameState["p1"].players) = 3


\* C36: an ACTION_BUY or ACTION_READY handled by a host whose phase is not
\* SHOP leaves the host's game state as it was; and while a host is in BATTLE
\* no player's inventory or souls change and no player's hit points grow.
C36_IntentsOnlyInShop ==
  [][\A p \in Peers :
       /\ (lastOp' \in {Op("ACTION_BUY", p), Op("ACTION_READY", p)}
             /\ gameState[p].phase # "SHOP")
            => gameState'[p] = gameState[p]
       /\ (isHost[p] /\ gameState[p].phase = "BATTLE" /\ gameState'[p].phase = "BATTLE")
            => \A i \in 1..Len(gameState[p].players) :
                 /\ gameState'[p].players[i].inventory = gameState[p].players[i].inventory
                 /\ gameState'[p].players[i].souls = gameState[p].players[i].souls
                 /\ gameState'[p].players[i].currentStats.hp
                      <= gameState[p].players[i].currentStats.hp]_vars

\* An ACTION_BUY handled after the battle had started and been rendered has
\* given a player a new item and taken its cost
C36_BoughtInBattle ==
  /\ isHost["p1"]
  /\ lastOp = Op("ACTION_BUY", "p1")
  /\ gameState["p1"].phase = "BATTLE"
  /\ gameStateRef["p1"].phase = "BATTLE"
  /\ \E i \in 1..2 :
       /\ Len(gameState["p1"].players[i].inventory)
            > Len(gameStateRef["p1"].players[i].inventory)
       /\ gameState["p1"].players[i].souls < gameStateRef["p1"].players[i].souls


\* How far a game state is into its session: a host moves through the rounds,
\* within a round through the phases, and within a battle through the turns
PhaseRank(phase) ==
  CASE phase = "WAITING_FOR_OPPONENT" -> 1
    [] phase = "SHOP" -> 2
    [] phase = "BATTLE" -> 3
    [] phase = "ROUND_RESULT" -> 4
    [] phase = "GAME_OVER" -> 5
    [] OTHER -> 0
Age(state) == state.round * 10000 + PhaseRank(state.phase) * 100 + Len(state.logs)

CarriesState(msg) == msg.type \in {"SYNC", "WELCOME"}

\* The states peer h holds in the step: before it, after it, and the one it
\* rendered last
HeldInStep(h) == {gameState[h], gameState'[h], gameStateRef[h]}

\* C38: a state reaches a client only from its host and unchanged.  Every
\* state-carrying message a step puts on the network or into a deferred
\* publish is published by a host and carries a state that host holds in that
\* step; a deferred publish sends the message it was set up with; and the
\* game state of a connected client changes only by taking over the payload
\* of such a message, or by setting the client's own ready flag.
C38_ClientShowsHostStates ==
  [][/\ \A m \in net' \ net :
          CarriesState(m.msg)
            => \/ \E t \in timers \ timers' : t.kind = "send" /\ t.msg = m.msg
               \/ /\ isHost[lastOp'.peer] \/ isHostRef[lastOp'.peer]
                  /\ m.msg.payload \in HeldInStep(lastOp'.peer)
     /\ \A t \in timers' \ timers :
          (t.kind = "send" /\ CarriesState(t.msg))
            => /\ t.peer = lastOp'.peer
               /\ isHostRef[t.peer]
               /\ t.msg.payload = gameState'[t.peer]
     /\ \A c \in Peers :
          (ClientRole(c) /\ isConnected'[c] /\ gameState'[c] # gameState[c])
            => \/ /\ lastOp' = Op("accept", c)
                  /\ \E m \in net \ net' :
                       CarriesState(m.msg) /\ gameState'[c] = m.msg.payload
               \/ /\ lastOp' = Op("handleShopReady", c)
                  /\ gameState'[c] =
                       [gameState[c] EXCEPT
                          !.players = MapPlayer(gameState[c].players, myPlayerId[c], Ready)]]_vars

\* A connected client shows its own ready flag on top of a battle-free state of
\* its host, and the host's SYNC of a later state is on its way to it
C38_Witness ==
  /\ ClientRole("p2") /\ isConnected["p2"]
  /\ lastOp = Op("handleShopReady", "p2")
  /\ findPlayer(gameState["p2"].players, "p2").isReady
  /\ ~findPlayer(gameState["p1"].players, "p2").isReady
  /\ \E m \in net :
       /\ CarriesState(m.msg)
       /\ clients[m.to].env.peer = "p2"
       /\ m.msg.payload = gameState["p1"]
       /\ m.msg.payload # gameStateRef["p2"]


\* C39: on a host, the shop and the battle of the first round have the turn
\* index at slot 0 until the first turn; a round that has ended has the turn
\* index at the slot of its winner; from there to the first turn of the next
\* battle nothing changes the index, so that battle starts with the previous
\* round's winner attacking; and every turn is made by the player at the
\* index and hands the index to the other slot unless it ends the battle.
C39_FirstAttacker ==
  /\ [](\A p \in Peers :
          isHost[p] =>
            /\ (gameState[p].round = 1 /\ gameState[p].logs = <<>>
                  /\ gameState[p].phase \in {"SHOP", "BATTLE"})
                 => gameState[p].currentTurnIndex = 0
            /\ gameState[p].phase = "ROUND_RESULT"
                 => /\ Len(gameState[p].players) = 2
                    /\ gameState[p].players[gameState[p].currentTurnIndex + 1].id
                         = gameState[p].roundWinnerId)
  /\ [][\A p \in Peers :
          /\ (isHost[p] /\ isHost'[p] /\ lastOp' # Op("executeTurn", p))
               => gameState'[p].currentTurnIndex = gameState[p].currentTurnIndex
          /\ lastOp' = Op("executeTurn", p)
               => LET prev == gameState[p]
                      next == gameState'[p]
                  IN /\ prev.phase = "BATTLE"
                     /\ next.logs[Len(prev.logs) + 1].attacker
                          = prev.players[prev.currentTurnIndex + 1].id
                     /\ next.currentTurnIndex =
                          IF next.phase = "BATTLE" THEN 1 - prev.currentTurnIndex
                          ELSE prev.currentTurnIndex]_vars

\* The first turn of the second round's battle is made by the player of the
\* second slot, who won the first round
C39_Witness ==
  /\ isHost["p1"]
  /\ lastOp = Op("executeTurn", "p1")
  /\ gameState["p1"].round = 2
  /\ Len(gameState["p1"].logs) = 1
  /\ gameState["p1"].logs[1].attacker = gameState["p1"].players[2].id
  /\ gameState["p1"].players[2].wins = 1
  /\ gameState["p1"].players[1].wins = 0


\* The host is in SHOP with two players that are all ready or AI-controlled
ReadyToFight(p) ==
  /\ isHost[p]
  /\ gameState[p].phase = "SHOP"
  /\ Len(gameState[p].players) = 2
  /\ allReady(gameState[p].players)

\* C40: whenever the host is in SHOP with two players that are all ready or
\* AI-controlled, the host eventually enters BATTLE; in particular it does not
\* stay in SHOP forever with the latch released, no call pending and no render
\* (hence no readiness check) to come.
C40_ReadinessLeadsToBattle ==
  \A p \in Peers :
    /\ ReadyToFight(p) ~> (gameState[p].phase = "BATTLE")
    /\ ~<>[](/\ ReadyToFight(p)
             /\ ~startingBattleRef[p]
             /\ aiCall[p] = <<>>
             /\ ~renderPending[p])

\* The purchase-decision call of the first shop phase has failed: everybody is
\* ready, the latch is released, and nothing is pending on the host
C40_StuckInShop ==
  /\ lastOp = Op("startBattleFailed", "p1")
  /\ ReadyToFight("p1")
  /\ gameState["p1"].round = 1
  /\ ~startingBattleRef["p1"]
  /\ aiCall["p1"] = <<>>
  /\ ~renderPending["p1"]
  /\ timers = {}

====
